---- MODULE Spec2Model ----
(***************************************************************************)
(* Market identity resolution and metric caching of the ironhorse deal     *)
(* tracker: the market-intel GET route (listing with garbage collection,   *)
(* market detail with lazy refresh), the forced-refresh POST route, the    *)
(* tracker upload route, and the census resolver/fetcher they call.        *)
(* Strings are sequences of one-character strings so that the normalizers  *)
(* are computed character by character, as the source computes them.       *)
(***************************************************************************)
EXTENDS Integers, Sequences, FiniteSets, TLC

\* null, undefined and the empty string: every test the source makes on a string
\* (!name, !code, !cbsaCode) treats them alike.  A nullable number is <<>> (null)
\* or <<n>>.
Null == <<>>

Some(n) == <<n>>

\* ------------------------------------------------------------------------
\* Characters and JavaScript string primitives
\* ------------------------------------------------------------------------
LowerChars == <<"a","b","c","d","e","f","g","h","i","j","k","l","m","n","o","p","q","r","s","t","u","v","w","x","y","z">>

UpperChars == <<"A","B","C","D","E","F","G","H","I","J","K","L","M","N","O","P","Q","R","S","T","U","V","W","X","Y","Z">>

DigitChars == <<"0","1","2","3","4","5","6","7","8","9">>

Range(f) == {f[i] : i \in DOMAIN f}

WhitespaceChars == {" ", "\t"}

\* String.prototype.toLowerCase on one character
toLowerChar(c) ==
  IF \E i \in DOMAIN UpperChars : UpperChars[i] = c
    THEN LowerChars[CHOOSE i \in DOMAIN UpperChars : UpperChars[i] = c]
    ELSE c

toLowerCase(s) == [i \in 1..Len(s) |-> toLowerChar(s[i])]

\* the regular-expression class \w
IsWordChar(c) == c \in Range(LowerChars) \cup Range(UpperChars) \cup Range(DigitChars) \cup {"_"}

RECURSIVE trimStart(_)
trimStart(s) ==
  IF s # <<>> /\ Head(s) \in WhitespaceChars THEN trimStart(Tail(s)) ELSE s

RECURSIVE trimEnd(_)
trimEnd(s) ==
  IF s # <<>> /\ s[Len(s)] \in WhitespaceChars THEN trimEnd(SubSeq(s, 1, Len(s) - 1)) ELSE s

\* String.prototype.trim
trim(s) == trimEnd(trimStart(s))

\* p occurs in s starting at index i
MatchesAt(s, i, p) ==
  /\ i + Len(p) - 1 <= Len(s)
  /\ \A k \in 1..Len(p) : s[i + k - 1] = p[k]

\* String.prototype.includes
includes(s, p) == \E i \in 1..(Len(s) + 1) : MatchesAt(s, i, p)

\* a match of p at i that a \b...\b pattern accepts
BoundedAt(s, i, p) ==
  /\ MatchesAt(s, i, p)
  /\ (i = 1 \/ ~IsWordChar(s[i - 1]))
  /\ (i + Len(p) > Len(s) \/ ~IsWordChar(s[i + Len(p)]))

\* first alternative of a regular-expression alternation that matches at i (0: none)
FirstAlt(s, i, alts, wordBound) ==
  LET ok(a) == IF wordBound THEN BoundedAt(s, i, alts[a]) ELSE MatchesAt(s, i, alts[a])
  IN  IF \E a \in DOMAIN alts : ok(a)
        THEN CHOOSE a \in DOMAIN alts : ok(a) /\ \A b \in 1..(a - 1) : ~ok(b)
        ELSE 0

\* s.replace(/alt1|alt2|.../g, '') scanning from index i
RECURSIVE StripFrom(_, _, _, _)
StripFrom(s, i, alts, wordBound) ==
  IF i > Len(s) THEN <<>>
  ELSE LET a == FirstAlt(s, i, alts, wordBound)
       IN  IF a # 0 THEN StripFrom(s, i + Len(alts[a]), alts, wordBound)
           ELSE <<s[i]>> \o StripFrom(s, i + 1, alts, wordBound)

\* s.replace(/[^keep]/g, ' '): every character outside keep becomes one space
BlankOutside(s, keep) == [i \in 1..Len(s) |-> IF s[i] \in keep THEN s[i] ELSE " "]

\* s.replace(/\s+/g, ' ')
RECURSIVE collapseWhitespace(_)
collapseWhitespace(s) ==
  IF s = <<>> THEN <<>>
  ELSE IF Head(s) \in WhitespaceChars
    THEN <<" ">> \o collapseWhitespace(trimStart(s))
    ELSE <<Head(s)>> \o collapseWhitespace(Tail(s))

\* s.split(sep) for a one-character separator
RECURSIVE split(_, _)
split(s, sep) ==
  IF \E i \in DOMAIN s : s[i] = sep
    THEN LET i == CHOOSE j \in DOMAIN s : s[j] = sep /\ \A k \in 1..(j - 1) : s[k] # sep
         IN  <<SubSeq(s, 1, i - 1)>> \o split(SubSeq(s, i + 1, Len(s)), sep)
    ELSE <<s>>

\* parts.join(sep)
RECURSIVE join(_, _)
join(parts, sep) ==
  IF parts = <<>> THEN <<>>
  ELSE IF Len(parts) = 1 THEN parts[1]
  ELSE parts[1] \o sep \o join(Tail(parts), sep)

\* parts.filter(Boolean): drops empty strings
RECURSIVE filterNonEmpty(_)
filterNonEmpty(parts) ==
  IF parts = <<>> THEN <<>>
  ELSE IF Head(parts) = <<>> THEN filterNonEmpty(Tail(parts))
  ELSE <<Head(parts)>> \o filterNonEmpty(Tail(parts))

\* ------------------------------------------------------------------------
\* Market-key normalizer (market page)
\* ------------------------------------------------------------------------
STATE_ABBREVIATIONS ==
    {
       <<<<"a","l","a","b","a","m","a">>, <<"a","l">>>>,
       <<<<"a","l","a","s","k","a">>, <<"a","k">>>>,
       <<<<"a","r","i","z","o","n","a">>, <<"a","z">>>>,
       <<<<"a","r","k","a","n","s","a","s">>, <<"a","r">>>>,
       <<<<"c","a","l","i","f","o","r","n","i","a">>, <<"c","a">>>>,
       <<<<"c","o","l","o","r","a","d","o">>, <<"c","o">>>>,
       <<<<"c","o","n","n","e","c","t","i","c","u","t">>, <<"c","t">>>>,
       <<<<"d","e","l","a","w","a","r","e">>, <<"d","e">>>>,
       <<<<"f","l","o","r","i","d","a">>, <<"f","l">>>>,
       <<<<"g","e","o","r","g","i","a">>, <<"g","a">>>>,
       <<<<"h","a","w","a","i","i">>, <<"h","i">>>>,
       <<<<"i","d","a","h","o">>, <<"i","d">>>>,
       <<<<"i","l","l","i","n","o","i","s">>, <<"i","l">>>>,
       <<<<"i","n","d","i","a","n","a">>, <<"i","n">>>>,
       <<<<"i","o","w","a">>, <<"i","a">>>>,
       <<<<"k","a","n","s","a","s">>, <<"k","s">>>>,
       <<<<"k","e","n","t","u","c","k","y">>, <<"k","y">>>>,
       <<<<"l","o","u","i","s","i","a","n","a">>, <<"l","a">>>>,
       <<<<"m","a","i","n","e">>, <<"m","e">>>>,
       <<<<"m","a","r","y","l","a","n","d">>, <<"m","d">>>>,
       <<<<"m","a","s","s","a","c","h","u","s","e","t","t","s">>, <<"m","a">>>>,
       <<<<"m","i","c","h","i","g","a","n">>, <<"m","i">>>>,
       <<<<"m","i","n","n","e","s","o","t","a">>, <<"m","n">>>>,
       <<<<"m","i","s","s","i","s","s","i","p","p","i">>, <<"m","s">>>>,
       <<<<"m","i","s","s","o","u","r","i">>, <<"m","o">>>>,
       <<<<"m","o","n","t","a","n","a">>, <<"m","t">>>>,
       <<<<"n","e","b","r","a","s","k","a">>, <<"n","e">>>>,
       <<<<"n","e","v","a","d","a">>, <<"n","v">>>>,
       <<<<"n","e","w"," ","h","a","m","p","s","h","i","r","e">>, <<"n","h">>>>,
       <<<<"n","e","w"," ","j","e","r","s","e","y">>, <<"n","j">>>>,
       <<<<"n","e","w"," ","m","e","x","i","c","o">>, <<"n","m">>>>,
       <<<<"n","e","w"," ","y","o","r","k">>, <<"n","y">>>>,
       <<<<"n","o","r","t","h"," ","c","a","r","o","l","i","n","a">>, <<"n","c">>>>,
       <<<<"n","o","r","t","h"," ","d","a","k","o","t","a">>, <<"n","d">>>>,
       <<<<"o","h","i","o">>, <<"o","h">>>>,
       <<<<"o","k","l","a","h","o","m","a">>, <<"o","k">>>>,
       <<<<"o","r","e","g","o","n">>, <<"o","r">>>>,
       <<<<"p","e","n","n","s","y","l","v","a","n","i","a">>, <<"p","a">>>>,
       <<<<"r","h","o","d","e"," ","i","s","l","a","n","d">>, <<"r","i">>>>,
       <<<<"s","o","u","t","h"," ","c","a","r","o","l","i","n","a">>, <<"s","c">>>>,
       <<<<"s","o","u","t","h"," ","d","a","k","o","t","a">>, <<"s","d">>>>,
       <<<<"t","e","n","n","e","s","s","e","e">>, <<"t","n">>>>,
       <<<<"t","e","x","a","s">>, <<"t","x">>>>,
       <<<<"u","t","a","h">>, <<"u","t">>>>,
       <<<<"v","e","r","m","o","n","t">>, <<"v","t">>>>,
       <<<<"v","i","r","g","i","n","i","a">>, <<"v","a">>>>,
       <<<<"w","a","s","h","i","n","g","t","o","n">>, <<"w","a">>>>,
       <<<<"w","e","s","t"," ","v","i","r","g","i","n","i","a">>, <<"w","v">>>>,
       <<<<"w","i","s","c","o","n","s","i","n">>, <<"w","i">>>>,
       <<<<"w","y","o","m","i","n","g">>, <<"w","y">>>>,
       <<<<"d","i","s","t","r","i","c","t"," ","o","f"," ","c","o","l","u","m","b","i","a">>, <<"d","c">>>>
    }

METRO_PHRASES ==
  << <<"m","e","t","r","o","p","o","l","i","t","a","n"," ","s","t","a","t","i","s","t","i","c","a","l"," ","a","r","e","a">>,
     <<"m","e","t","r","o","p","o","l","i","t","a","n"," ","a","r","e","a">>,
     <<"m","e","t","r","o"," ","a","r","e","a">>,
     <<"m","e","t","r","o">>,
     <<"m","s","a">> >>

stateAbbreviation(token) ==
  IF \E e \in STATE_ABBREVIATIONS : e[1] = token
    THEN (CHOOSE e \in STATE_ABBREVIATIONS : e[1] = token)[2]
    ELSE token

normalizeStateToken(value) ==
  LET cleaned == trim(collapseWhitespace(BlankOutside(toLowerCase(value), Range(LowerChars))))
      tokens  == split(cleaned, " ")
  IN  IF cleaned = <<>> THEN <<>>
      ELSE trim(join([i \in DOMAIN tokens |-> stateAbbreviation(tokens[i])], <<" ">>))

\* METRO_PHRASES.forEach(phrase => cleaned = cleaned.replace(/\bphrase\b/g, ''))
RECURSIVE stripMetroPhrases(_, _)
stripMetroPhrases(s, k) ==
  IF k > Len(METRO_PHRASES) THEN s
  ELSE stripMetroPhrases(StripFrom(s, 1, <<METRO_PHRASES[k]>>, TRUE), k + 1)

normalizeMsaKey(value) ==
  IF value = <<>> THEN <<>>
  ELSE
    LET lowered == toLowerCase(trim(value))
        stripped == stripMetroPhrases(lowered, 1)
        cleaned == trim(collapseWhitespace(collapseWhitespace(
                     BlankOutside(stripped, Range(LowerChars) \cup Range(DigitChars) \cup {","}))))
        rawParts == split(cleaned, ",")
        parts == filterNonEmpty([i \in DOMAIN rawParts |-> trim(rawParts[i])])
    IN  IF cleaned = <<>> THEN <<>>
        ELSE IF Len(parts) > 1
          THEN LET state == normalizeStateToken(parts[Len(parts)])
                   name  == trim(join(SubSeq(parts, 1, Len(parts) - 1), <<" ">>))
               IN  collapseWhitespace(trim(name \o <<" ">> \o state))
          ELSE collapseWhitespace(cleaned)

\* /metropolitan statistical area|metropolitan area|metro area|metro|msa/i.test(value)
hasMetroPhrase(value) ==
  \E k \in DOMAIN METRO_PHRASES : includes(toLowerCase(value), METRO_PHRASES[k])

\* the last comma-separated part, trimmed, matches /^[A-Za-z]{2}$/
hasStateAbbreviation(value) ==
  LET parts == split(value, ",")
      state == trim(parts[Len(parts)])
  IN  IF Len(parts) < 2 THEN FALSE
      ELSE /\ Len(state) = 2
           /\ \A i \in 1..2 : state[i] \in Range(LowerChars) \cup Range(UpperChars)

\* U+212A KELVIN SIGN: one code unit, canonically equivalent to "K"
KelvinSign == "[U+212A]"

IndexIn(seq, c) == CHOOSE i \in DOMAIN seq : seq[i] = c

\* collation order of the characters before the letters
CollationPunctuation == <<" ", "-", ",">>

\* primary collation weight: punctuation, then digits, then letters without case;
\* canonically equivalent characters have the same weights
PrimaryWeight(c) ==
  IF c = KelvinSign THEN 13 + IndexIn(LowerChars, "k")
  ELSE IF c \in Range(CollationPunctuation) THEN IndexIn(CollationPunctuation, c)
  ELSE IF c \in Range(DigitChars) THEN 3 + IndexIn(DigitChars, c)
  ELSE IF c \in Range(LowerChars) THEN 13 + IndexIn(LowerChars, c)
  ELSE 13 + IndexIn(UpperChars, c)

\* tertiary collation weight: lower case before upper case
TertiaryWeight(c) == IF c = KelvinSign \/ c \in Range(UpperChars) THEN 1 ELSE 0

\* lexicographic comparison of two weight sequences: -1, 0 or 1
RECURSIVE CompareWeights(_, _)
CompareWeights(x, y) ==
  IF x = <<>> /\ y = <<>> THEN 0
  ELSE IF x = <<>> THEN -1
  ELSE IF y = <<>> THEN 1
  ELSE IF Head(x) < Head(y) THEN -1
  ELSE IF Head(x) > Head(y) THEN 1
  ELSE CompareWeights(Tail(x), Tail(y))

\* String.prototype.localeCompare with the default collation: primary weights of
\* the whole strings first, then case; 0 for canonically equivalent strings
localeCompare(a, b) ==
  LET primary == CompareWeights([i \in DOMAIN a |-> PrimaryWeight(a[i])],
                                [i \in DOMAIN b |-> PrimaryWeight(b[i])])
  IN  IF primary # 0 THEN primary
      ELSE CompareWeights([i \in DOMAIN a |-> TertiaryWeight(a[i])],
                          [i \in DOMAIN b |-> TertiaryWeight(b[i])])

choosePreferredMsaName(current, next) ==
  IF current = <<>> THEN next
  ELSE IF next = <<>> THEN current
  ELSE IF hasMetroPhrase(current) # hasMetroPhrase(next)
    THEN (IF hasMetroPhrase(current) THEN next ELSE current)
  ELSE IF hasStateAbbreviation(current) # hasStateAbbreviation(next)
    THEN (IF hasStateAbbreviation(current) THEN current ELSE next)
  ELSE IF Len(current) # Len(next)
    THEN (IF Len(current) <= Len(next) THEN current ELSE next)
  ELSE IF localeCompare(current, next) <= 0 THEN current ELSE next

\* ------------------------------------------------------------------------
\* Statistical-area resolver and metric fetcher (census library)
\* ------------------------------------------------------------------------
CensusPhrases ==
  << <<"m","e","t","r","o","p","o","l","i","t","a","n"," ","s","t","a","t","i","s","t","i","c","a","l"," ","a","r","e","a">>,
     <<"m","i","c","r","o","p","o","l","i","t","a","n"," ","s","t","a","t","i","s","t","i","c","a","l"," ","a","r","e","a">>,
     <<"m","e","t","r","o"," ","a","r","e","a">>,
     <<"m","s","a">> >>

normalizeName(value) ==
  trim(collapseWhitespace(
    BlankOutside(StripFrom(toLowerCase(value), 1, CensusPhrases, FALSE),
                 Range(LowerChars) \cup Range(DigitChars) \cup {" "})))

Min(a, b) == IF a <= b THEN a ELSE b

\* the scan without the early return on an exact match
RECURSIVE resolveScan_NoExactReturn(_, _, _, _, _)
resolveScan_NoExactReturn(rows, i, target, bestMatchCode, bestScore) ==
  IF i > Len(rows) THEN bestMatchCode
  ELSE
    LET name == rows[i].name
        code == rows[i].code
        normalized == normalizeName(name)
        score == Min(Len(normalized), Len(target))
    IN  IF name = <<>> \/ code = <<>>
          THEN resolveScan_NoExactReturn(rows, i + 1, target, bestMatchCode, bestScore)
        ELSE IF (includes(normalized, target) \/ includes(target, normalized)) /\ score > bestScore
          THEN resolveScan_NoExactReturn(rows, i + 1, target, code, score)
        ELSE resolveScan_NoExactReturn(rows, i + 1, target, bestMatchCode, bestScore)

\* the scan of resolveCbsaCode over catalog rows i..Len(rows), carrying the best
\* containment candidate seen so far
RECURSIVE resolveScan(_, _, _, _, _)
resolveScan(rows, i, target, bestMatchCode, bestScore) ==
  IF i > Len(rows) THEN bestMatchCode
  ELSE
    LET name == rows[i].name
        code == rows[i].code
        normalized == normalizeName(name)
        score == Min(Len(normalized), Len(target))
    IN  IF name = <<>> \/ code = <<>>
          THEN resolveScan(rows, i + 1, target, bestMatchCode, bestScore)
        ELSE IF normalized = target THEN code
        ELSE IF (includes(normalized, target) \/ includes(target, normalized)) /\ score > bestScore
          THEN resolveScan(rows, i + 1, target, code, score)
        ELSE resolveScan(rows, i + 1, target, bestMatchCode, bestScore)

\* resolveCbsaCode on a well-formed catalog response (rows after the header row)
resolveCbsaCode(msaName, rows) == resolveScan(rows, 1, normalizeName(msaName), Null, -1)

\* ------------------------------------------------------------------------
\* Metric fetcher
\* ------------------------------------------------------------------------
ACS_TABLE_FIELDS ==
  {"population", "median_household_income", "median_home_price",
   "renter_households", "households", "employed"}

ACS_PROFILE_FIELDS == {"home_ownership_rate", "unemployment_rate", "rent_to_income_ratio"}

Sentinel == -1000000

\* a raw cell of a metric-values response is [kind |-> "missing" | "text" | "number", n |-> Int]
parseNumeric(raw) ==
  IF raw.kind # "number" THEN Null
  ELSE IF raw.n <= Sentinel THEN Null
  ELSE Some(raw.n)

\* fetchCensusData on a well-formed response: one parsed value per requested field
fetchCensusData(fields, response) == [key \in fields |-> parseNumeric(response[key])]

\* fetchAcsYear: { ...tableData, ...profileData }
fetchAcsYear(tableResponse, profileResponse) ==
  LET tableData == fetchCensusData(ACS_TABLE_FIELDS, tableResponse)
      profileData == fetchCensusData(ACS_PROFILE_FIELDS, profileResponse)
  IN  [key \in ACS_TABLE_FIELDS \cup ACS_PROFILE_FIELDS |->
         IF key \in ACS_PROFILE_FIELDS THEN profileData[key] ELSE tableData[key]]

\* Numbers are IEEE 754 doubles.  A non-zero double is a significand of
\* MantissaBits bits (most significant first, the first one 1) and the binary
\* exponent e of its first bit; division and multiplication round to nearest,
\* ties to even.
MantissaBits == 53

Abs(n) == IF n < 0 THEN -n ELSE n

\* the low w bits of n, most significant first
PadBits(n, w) == [i \in 1..w |-> (n \div 2^(w - i)) % 2]

\* the bits of n without leading zeros, for 0 <= n < 2^30
ToBits(n) == PadBits(n, CHOOSE k \in 0..30 : 2^k > n /\ (k = 0 \/ 2^(k - 1) <= n))

RECURSIVE FromBits(_)
FromBits(bits) ==
  IF bits = <<>> THEN 0
  ELSE 2 * FromBits(SubSeq(bits, 1, Len(bits) - 1)) + bits[Len(bits)]

Increment(bits) ==
  IF \A i \in DOMAIN bits : bits[i] = 1 THEN <<1>> \o [i \in DOMAIN bits |-> 0]
  ELSE LET j == CHOOSE i \in DOMAIN bits : bits[i] = 0 /\ \A k \in (i + 1)..Len(bits) : bits[k] = 1
       IN  [i \in DOMAIN bits |-> IF i < j THEN bits[i] ELSE IF i = j THEN 1 ELSE 0]

\* the first MantissaBits bits of a longer exact result, rounded by the bits
\* behind them (sticky: a non-zero remainder lies behind all of them)
RoundToDouble(bits, e, sticky) ==
  LET mant == SubSeq(bits, 1, MantissaBits)
      guard == IF Len(bits) > MantissaBits THEN bits[MantissaBits + 1] ELSE 0
      rest == sticky \/ \E i \in (MantissaBits + 2)..Len(bits) : bits[i] = 1
      roundUp == guard = 1 /\ (rest \/ mant[MantissaBits] = 1)
      up == Increment(mant)
  IN  IF ~roundUp THEN [mant |-> mant, e |-> e]
      ELSE IF Len(up) > MantissaBits THEN [mant |-> SubSeq(up, 1, MantissaBits), e |-> e + 1]
      ELSE [mant |-> up, e |-> e]

\* the long arithmetic below works on this many bits at a time
LimbBits == 9

\* bits with n more bits of the quotient r / b behind them, and the remainder
\* (0 <= r < b < 2^21)
RECURSIVE FractionBits(_, _, _, _)
FractionBits(r, b, n, bits) ==
  IF n = 0 THEN [bits |-> bits, r |-> r]
  ELSE IF n < LimbBits
    THEN FractionBits((r * 2^n) % b, b, 0, bits \o PadBits((r * 2^n) \div b, n))
  ELSE FractionBits((r * 2^LimbBits) % b, b, n - LimbBits,
                    bits \o PadBits((r * 2^LimbBits) \div b, LimbBits))

\* zero bits between the binary point and the first 1 of r / b, for 0 < r < b
RECURSIVE LeadingZeros(_, _)
LeadingZeros(r, b) == IF 2 * r >= b THEN 0 ELSE 1 + LeadingZeros(2 * r, b)

\* a / b for integers a, b > 0
DivideDoubles(a, b) ==
  LET whole == ToBits(a \div b)
      zeros == IF whole = <<>> THEN LeadingZeros(a % b, b) ELSE 0
      tail == FractionBits((a % b) * 2^zeros, b, MantissaBits + 1 - Len(whole), whole)
  IN  RoundToDouble(tail.bits,
                    IF whole = <<>> THEN -(zeros + 1) ELSE Len(whole) - 1,
                    tail.r # 0)

\* the bits of (bits * c + carry), limb by limb from the low end (0 < c < 2^20)
RECURSIVE MultiplyBits(_, _, _)
MultiplyBits(bits, c, carry) ==
  IF Len(bits) <= LimbBits THEN ToBits(FromBits(bits) * c + carry)
  ELSE MultiplyBits(SubSeq(bits, 1, Len(bits) - LimbBits), c,
         (FromBits(SubSeq(bits, Len(bits) - LimbBits + 1, Len(bits))) * c + carry) \div 2^LimbBits)
       \o PadBits(FromBits(SubSeq(bits, Len(bits) - LimbBits + 1, Len(bits))) * c + carry, LimbBits)

\* d * c for a double d > 0 and an integer c > 0
MultiplyDouble(d, c) ==
  LET product == MultiplyBits(d.mant, c, 0)
  IN  RoundToDouble(product, d.e + Len(product) - MantissaBits, FALSE)

\* a non-null number as the model holds it: <<n>> when the double is a whole
\* number n, <<sign, significand, exponent>> otherwise
DoubleValue(negative, d) ==
  IF d.e >= 0 /\ d.e < 20 /\ \A i \in (d.e + 2)..MantissaBits : d.mant[i] = 0
    THEN Some((IF negative THEN -1 ELSE 1) * FromBits(SubSeq(d.mant, 1, d.e + 1)))
    ELSE <<negative, d.mant, d.e>>

\* two pasts that are not the same number
computeGrowth_OverCurrent(current, past) ==
  IF current = Null \/ past = Null THEN Null
  ELSE IF current[1] = 0 THEN Null
  ELSE IF current[1] = past[1] THEN Some(0)
  ELSE DoubleValue((current[1] < past[1]) # (current[1] < 0),
         MultiplyDouble(DivideDoubles(Abs(current[1] - past[1]), Abs(current[1])), 100))

\* ((current - past) / past) * 100
computeGrowth(current, past) ==
  IF current = Null \/ past = Null THEN Null
  ELSE IF past[1] = 0 THEN Null
  ELSE IF current[1] = past[1] THEN Some(0)
  ELSE DoubleValue((current[1] < past[1]) # (past[1] < 0),
         MultiplyDouble(DivideDoubles(Abs(current[1] - past[1]), Abs(past[1])), 100))

normalizeRentToIncomeRatio(value) ==
  IF value = Null THEN Null
  ELSE IF value[1] <= 0 THEN Null
  ELSE IF value[1] > 1000 THEN Some(value[1] \div 1000)
  ELSE IF value[1] > 100 THEN Some(value[1] \div 100)
  ELSE value

Periods == <<1, 3, 5, 10>>

PeriodSet == Range(Periods)

MinYear == 2010

\* the fetch loop without its skip of early years
FetchedYears_NoCutoff(latestYear) ==
  {latestYear} \cup {latestYear - Periods[i] : i \in DOMAIN Periods}

\* new Set([latestYear, latestYear - 1, latestYear - 3, latestYear - 5, latestYear - 10])
\* without the years the fetch loop skips
FetchedYears(latestYear) ==
  {y \in {latestYear} \cup {latestYear - Periods[i] : i \in DOMAIN Periods} : y >= MinYear}

LevelKeys ==
  {"population", "median_household_income", "home_ownership_rate", "median_home_price",
   "renter_households", "unemployment_rate"}

\* growth series key -> the field it is computed from
GrowthSource ==
  [population_growth |-> "population",
   median_household_income_growth |-> "median_household_income",
   median_home_price_growth |-> "median_home_price",
   renter_households_growth |-> "renter_households",
   household_formation_growth |-> "households",
   avg_annual_job_growth |-> "employed"]

\* the keys of the series object, in the order of its literal
SeriesKeys ==
  <<"population", "population_growth", "median_household_income",
    "median_household_income_growth", "home_ownership_rate", "median_home_price",
    "median_home_price_growth", "renter_households", "renter_households_growth",
    "avg_annual_job_growth", "household_formation_growth", "unemployment_rate",
    "rent_to_income_ratio">>

\* yearValues.get(year)?.[key] ?? null
getValue(yearValues, year, key) ==
  IF year \in DOMAIN yearValues THEN yearValues[year][key] ELSE Null

\* the series object fetchCensusSeries builds from the per-year values
\* (yearValues has the latest year: the caller has thrown otherwise)
buildSeries(yearValues, latestYear) ==
  [key \in Range(SeriesKeys) |->
    [period \in PeriodSet |->
      LET levelYear == IF period = 1 THEN latestYear ELSE latestYear - period
      IN  IF key \in LevelKeys THEN getValue(yearValues, levelYear, key)
          ELSE IF key = "rent_to_income_ratio"
            THEN normalizeRentToIncomeRatio(getValue(yearValues, levelYear, key))
          ELSE computeGrowth(getValue(yearValues, latestYear, GrowthSource[key]),
                             getValue(yearValues, latestYear - period, GrowthSource[key]))]]

\* the rows seeded into market_intel.metric
metric ==
  {[key |-> k, kind |-> "series"] :
     k \in {"population", "population_growth", "median_household_income",
            "median_household_income_growth", "home_ownership_rate",
            "median_home_price", "median_home_price_growth", "renter_households",
            "renter_households_growth", "avg_annual_job_growth",
            "household_formation_growth", "unemployment_rate", "rent_to_income_ratio",
            "mf_avg_occupancy", "mf_rent_growth", "sales_volume", "avg_cap_rate",
            "avg_price_per_unit"}}
  \cup
  {[key |-> k, kind |-> "list"] :
     k \in {"top_employment_concentrations", "top_employers",
            "major_hiring_announcements", "top_owners"}}
  \cup
  {[key |-> k, kind |-> "snapshot"] :
     k \in {"linkedin_postings_ratio", "linkedin_postings_trend_6m", "mf_stock_units",
            "mf_avg_annual_deliveries_5y", "mf_under_construction_permits",
            "mf_pipeline_ratio", "mf_avg_rent", "mf_class_bc_share", "replacement_cost",
            "affordability_index", "tenant_protections", "ai_disruption_composite",
            "home_to_rent_price_gap", "property_tax_reassessment_trigger",
            "eviction_efficiency_score", "insurance_premium_velocity_3y",
            "climate_degradation_score"}}

\* the constraints of market_intel.metric_series on the rows of a statement, the
\* foreign key on msa_id apart: the check on period_years and the foreign key on
\* metric_key
SeriesConstraints(rows) ==
  \A i \in DOMAIN rows :
    /\ rows[i].period_years \in {1, 3, 5, 10}
    /\ \E m \in metric : m.key = rows[i].metric_key

\* the rows without those whose value is null
SeriesRows_SkipNull(msaId, series) ==
  LET Keep(row) == row.value # Null
      all == [i \in 1..(Len(SeriesKeys) * Len(Periods)) |->
               LET key == SeriesKeys[((i - 1) \div Len(Periods)) + 1]
                   period == Periods[((i - 1) % Len(Periods)) + 1]
               IN  [msa_id |-> msaId, metric_key |-> key, period_years |-> period,
                    value |-> series[key][period]]]
  IN  SelectSeq(all, Keep)

\* Object.entries(series).flatMap(...): the rows upsertSeriesValues sends
SeriesRows(msaId, series) ==
  [i \in 1..(Len(SeriesKeys) * Len(Periods)) |->
    LET key == SeriesKeys[((i - 1) \div Len(Periods)) + 1]
        period == Periods[((i - 1) % Len(Periods)) + 1]
    IN  [msa_id |-> msaId, metric_key |-> key, period_years |-> period,
         value |-> series[key][period]]]

\* ------------------------------------------------------------------------
\* The world the requests run in: market names, the external source, files
\* ------------------------------------------------------------------------
\* request slots: at most this many requests are in flight at once
Procs == {1, 2}

\* two spellings of one market and a name no catalog entry matches
NameAB == <<"A","-","B">>

NameAb == <<"a",","," ","b">>

NameQ == <<"Q">>

Names == {NameAB, NameAb, NameQ}

\* the external catalog listing: rows after the header row
Catalog ==
  << [name |-> <<"A","-","B","-","C",","," ","T","X">>, code |-> <<"1","0">>],
     [name |-> <<"B",","," ","T","X">>, code |-> <<"2","0">>] >>

\* what resolveCbsaCode(name, apiKey, latestYear) returns for each market name
\* while the source serves the catalog listing
CatalogCode == [name \in Names |-> resolveCbsaCode(name, Catalog)]

\* default of process.env.CENSUS_ACS_LATEST_YEAR
CENSUS_ACS_LATEST_YEAR == 2022

\* the external source changes its figures at most MaxVersion times
MaxVersion == 1

Versions == 0..MaxVersion

\* one cell of the metric-values response of the given year; in its second version
\* the source reports every estimate as unavailable
ExternalCell(version, year, key) ==
  IF version = 1
    THEN [kind |-> "number", n |-> -666666666]
  ELSE IF key = "median_home_price" /\ year = CENSUS_ACS_LATEST_YEAR - 10
    THEN [kind |-> "number", n |-> -999999999]
  ELSE IF key = "employed" /\ year = CENSUS_ACS_LATEST_YEAR - 5
    THEN [kind |-> "missing", n |-> 0]
  ELSE IF year = CENSUS_ACS_LATEST_YEAR
    THEN [kind |-> "number", n |-> 110 + 10 * version]
  ELSE [kind |-> "number", n |-> 100]

ExternalResponse(version, year) ==
  [key \in ACS_TABLE_FIELDS \cup ACS_PROFILE_FIELDS |-> ExternalCell(version, year, key)]

\* fetchCensusSeries when every request succeeds
fetchCensusSeries(version, latestYear) ==
  LET yearValues == [y \in FetchedYears(latestYear) |->
                       fetchAcsYear(ExternalResponse(version, y), ExternalResponse(version, y))]
  IN  buildSeries(yearValues, latestYear)

\* what fetchCensusSeries(name, code, apiKey, latestYear) returns while the source
\* serves each version of its figures
CensusSeries == [v \in Versions |-> fetchCensusSeries(v, CENSUS_ACS_LATEST_YEAR)]

\* requests fetchCensusSeries issues: two field groups per fetched year
FetchRequestCount(latestYear) == 2 * Cardinality(FetchedYears(latestYear))

\* the two datasets fetchAcsYear requests for a year
AcsDatasets == {"acs/acs5", "acs/acs5/profile"}

\* the (year, dataset) requests fetchCensusSeries issues: every year of the set
\* that is not skipped starts both of its requests before any response arrives
FetchRequests(latestYear) == FetchedYears(latestYear) \X AcsDatasets

\* a call of fetchCensusSeries while every response has the given outcome:
\* the requests issued, the error thrown ("" for none) and the series returned
fetchCensusSeriesCall(version, latestYear, outcome) ==
  LET requests == FetchRequests(latestYear)
  IN  IF requests # {} /\ outcome = "http_error"
        THEN [requests |-> requests, error |-> "Census API error", series |-> Null]
      ELSE IF requests # {} /\ outcome = "malformed"
        THEN [requests |-> requests, error |-> "Census API returned no data",
              series |-> Null]
      ELSE IF latestYear \notin FetchedYears(latestYear)
        THEN [requests |-> requests, error |-> "No Census data", series |-> Null]
      ELSE [requests |-> requests, error |-> "",
            series |-> fetchCensusSeries(version, latestYear)]

\* deals of an uploaded tracker, as extractDealsFromRows returns them
TrackerFiles ==
  { << [msaName |-> NameAB, zip |-> "75001", city |-> <<"A">>, state |-> <<"B">>,
        evaluationStatus |-> "ACTIVE", executionStage |-> "UNPROCESSED", notes |-> ""],
       [msaName |-> <<>>, zip |-> "10001", city |-> <<"a">>, state |-> <<"b">>,
        evaluationStatus |-> "MISSING_INFO", executionStage |-> "UNPROCESSED",
        notes |-> ""] >> }

\* requests started in a run whose requests come one at a time (deal removals
\* are not counted)
MaxSequentialRequests == 3

\* ------------------------------------------------------------------------
\* State
\* ------------------------------------------------------------------------
VARIABLES
  msa,            \* market_intel.msa: set of [id, name, cbsa_code]
  msa_zip,        \* market_intel.msa_zip: set of [msa_id, zip]
  metric_series,  \* market_intel.metric_series: sequence of rows in heap order
  deals,          \* deals.deals: set of [id, msa_id, msa_name]
  nextMsaId,      \* ids handed out by gen_random_uuid() are never reused
  nextDealId,
  apiKey,         \* process.env.CENSUS_API_KEY is set
  extVersion,     \* the figures the external source currently serves
  codeWrites,     \* per identity: update statements that stored a code
  started,        \* requests started so far
  slots,          \* request slots in use: 1 runs the requests one at a time
  pc,             \* per request slot: the next step
  loc,            \* per request slot: the handler's locals and its response
  call,           \* a library function applied on its own: name, arguments, result
  storeDeals,     \* StoreProvider's deals state: the deal list the pages show
  storeCalls      \* the store's requests to /api/deals that have not returned

vars == <<msa, msa_zip, metric_series, deals, nextMsaId, nextDealId, apiKey,
          extVersion, codeWrites, started, slots, pc, loc, call,
          storeDeals, storeCalls>>

client == <<storeDeals, storeCalls>>

db == <<msa, msa_zip, metric_series, deals, nextMsaId, nextDealId, codeWrites>>

NoRow == [id |-> 0, name |-> <<>>, cbsa_code |-> Null]

NoResponse ==
  [kind |-> "none", status |-> 0, message |-> "none", msa |-> NoRow,
   series |-> <<>>, msas |-> {}, zips |-> {}, added |-> 0, deals |-> <<>>]

IdleLocals ==
  [op |-> "none", name |-> <<>>, file |-> <<>>, msa |-> NoRow, msas |-> {},
   dealMsaIds |-> {}, cbsaCode |-> Null, census |-> <<>>, count |-> -1,
   autoRefreshWarning |-> "none", extCalls |-> 0, resolveCalls |-> 0,
   extFailed |-> FALSE, ver |-> -1, wrote |-> FALSE, dirty |-> FALSE,
   gcHit |-> FALSE, cached |-> FALSE, storeFailed |-> FALSE, apiKey |-> FALSE, resp |-> NoResponse]

\* no library function is being applied on its own
\* lib/mock-data: the deal list the store starts with
DEALS == <<>>

NoCall == [fn |-> "none", args |-> <<>>, done |-> FALSE, result |-> <<>>]

Init ==
  /\ call = NoCall
  /\ msa = {}
  /\ msa_zip = {}
  /\ metric_series = <<>>
  /\ deals = {}
  /\ nextMsaId = 1
  /\ nextDealId = 1
  /\ apiKey \in BOOLEAN
  /\ extVersion = 0
  /\ codeWrites = <<>>
  /\ started = 0
  /\ slots \in Procs
  /\ pc = [p \in Procs |-> "idle"]
  /\ loc = [p \in Procs |-> IdleLocals]
  /\ storeDeals = DEALS
  /\ storeCalls = {}

\* ------------------------------------------------------------------------
\* Store statements
\* ------------------------------------------------------------------------
RowsNamed(name) == {r \in msa : r.name = name}

\* a plain insert on a table without the unique constraint
MsaUpsert_Insert(table, name, id) ==
  table \cup {[id |-> id, name |-> name, cbsa_code |-> Null]}

\* .from('msa').upsert({ name }, { onConflict: 'name' }): the table after the statement
MsaUpsert(table, name, id) ==
  IF \E r \in table : r.name = name THEN table
  ELSE table \cup {[id |-> id, name |-> name, cbsa_code |-> Null]}

SeriesKey(r) == <<r.msa_id, r.metric_key, r.period_years>>

SeriesOf(table, id) == SelectSeq(table, LAMBDA r : r.msa_id = id)

\* a plain insert: every incoming row is appended
SeriesUpsert_Insert(table, rows) == table \o rows

\* ignoreDuplicates: a conflicting row keeps its stored value
SeriesUpsert_IgnoreDuplicates(table, rows) ==
  table \o SelectSeq(rows, LAMBDA r : \A i \in DOMAIN table : SeriesKey(table[i]) # SeriesKey(r))

\* .from('metric_series').upsert(rows, { onConflict: 'msa_id,metric_key,period_years' })
SeriesUpsert(table, rows) ==
  LET Incoming(k) == rows[CHOOSE i \in DOMAIN rows : SeriesKey(rows[i]) = k]
      keys == {SeriesKey(rows[i]) : i \in DOMAIN rows}
      held == {SeriesKey(table[i]) : i \in DOMAIN table}
  IN  [i \in DOMAIN table |->
         IF SeriesKey(table[i]) \in keys THEN Incoming(SeriesKey(table[i])) ELSE table[i]]
      \o SelectSeq(rows, LAMBDA r : SeriesKey(r) \notin held)

\* metric_series.msa_id without "on delete cascade"
SeriesAfterDelete_NoCascade(table, ids) == table

\* .from('msa').delete().in('id', ids) with the schema's foreign keys:
\* metric_series and msa_zip cascade, deals.msa_id is set null
SeriesAfterDelete(table, ids) == SelectSeq(table, LAMBDA r : r.msa_id \notin ids)

ZipsAfterDelete(table, ids) == {z \in table : z.msa_id \notin ids}

DealsAfterDelete(table, ids) ==
  {IF d.msa_id \in ids THEN [d EXCEPT !.msa_id = 0] ELSE d : d \in table}

\* history: a statement of request q changed the store while p was in flight
MarkDirty(l, q, deleted) ==
  [p \in Procs |->
     IF p # q /\ pc[p] # "idle"
       THEN [l[p] EXCEPT !.dirty = TRUE,
                         !.gcHit = @ \/ l[p].msa.id \in deleted
                                     \/ (l[p].op = "upload" /\ \E r \in l[p].msas : r.id \in deleted)]
       ELSE l[p]]

\* with one slot the requests come one after the other, each after the response
\* of the one before; with more, every slot serves one request, which may overlap
\* the requests of the slots before it in any way
CanStart(p) ==
  IF slots = 1
    THEN p = 1 /\ pc[p] \in {"idle", "done"} /\ started < MaxSequentialRequests
    ELSE p <= slots /\ pc[p] = "idle" /\ \A q \in Procs : q < p => pc[q] # "idle"

\* history: the named market has series rows when the request arrives
Cached(name) == \E r \in RowsNamed(name) : SeriesOf(metric_series, r.id) # <<>>

Respond(l, p, r) == [l EXCEPT ![p].resp = r]

ErrorResponse(status, message) ==
  [NoResponse EXCEPT !.kind = "error", !.status = status, !.message = message]

\* ------------------------------------------------------------------------
\* GET /api/market-intel without a name: listMarkets
\* ------------------------------------------------------------------------
StartList(p) ==
  /\ CanStart(p)
  /\ started' = started + 1
  /\ pc' = [pc EXCEPT ![p] = "l_selectMsas"]
  /\ loc' = [loc EXCEPT ![p] = [IdleLocals EXCEPT !.op = "list", !.apiKey = apiKey]]
  /\ UNCHANGED <<db, slots, call, client, apiKey, extVersion>>

ListSelectMsas(p) ==
  /\ pc[p] = "l_selectMsas"
  /\ loc' = [loc EXCEPT ![p].msas = msa]
  /\ pc' = [pc EXCEPT ![p] = "l_selectDeals"]
  /\ UNCHANGED <<started, slots, call, client, db, apiKey, extVersion>>

staleMsaIds(l) == {r.id : r \in {m \in l.msas : m.id \notin l.dealMsaIds}}

ListSelectDeals(p) ==
  LET ids == {d.msa_id : d \in {x \in deals : x.msa_id # 0}}
      l == [loc[p] EXCEPT !.dealMsaIds = ids]
  IN  /\ pc[p] = "l_selectDeals"
      /\ loc' = [loc EXCEPT ![p] = l]
      /\ pc' = [pc EXCEPT ![p] = IF staleMsaIds(l) # {} THEN "l_purge" ELSE "l_selectZips"]
      /\ UNCHANGED <<started, slots, call, client, db, apiKey, extVersion>>

ListPurge(p) ==
  LET ids == staleMsaIds(loc[p])
  IN  /\ pc[p] = "l_purge"
      /\ msa' = {r \in msa : r.id \notin ids}
      /\ metric_series' = SeriesAfterDelete(metric_series, ids)
      /\ msa_zip' = ZipsAfterDelete(msa_zip, ids)
      /\ deals' = DealsAfterDelete(deals, ids)
      /\ loc' = MarkDirty(loc, p, ids)
      /\ pc' = [pc EXCEPT ![p] = "l_selectZips"]
      /\ UNCHANGED <<started, slots, call, client, nextMsaId, nextDealId, codeWrites, apiKey, extVersion>>

ListSelectZips(p) ==
  LET activeMsas == {m \in loc[p].msas : m.id \in loc[p].dealMsaIds}
      response == {[name |-> m.name,
                    zipCount |-> Cardinality({z \in msa_zip : z.msa_id = m.id})] : m \in activeMsas}
  IN  /\ pc[p] = "l_selectZips"
      /\ loc' = Respond(loc, p, [NoResponse EXCEPT !.kind = "ok", !.status = 200,
                                   !.msas = response,
                                   !.message = IF loc[p].apiKey THEN "none" ELSE "no_api_key"])
      /\ pc' = [pc EXCEPT ![p] = "done"]
      /\ UNCHANGED <<started, slots, call, client, db, apiKey, extVersion>>

\* ------------------------------------------------------------------------
\* GET /api/market-intel?msa=name: getMarketIntel
\* ------------------------------------------------------------------------
StartGet(p, name) ==
  /\ CanStart(p)
  /\ started' = started + 1
  /\ pc' = [pc EXCEPT ![p] = "g_selectMsa"]
  /\ loc' = [loc EXCEPT ![p] = [IdleLocals EXCEPT !.op = "get", !.name = name, !.apiKey = apiKey,
                                                    !.cached = Cached(name)]]
  /\ UNCHANGED <<db, slots, call, client, apiKey, extVersion>>

\* the lazy refresh attempted without looking at the credential
AfterIdentity_NoCredentialCheck(p) == "g_count"

AfterIdentity(p) == IF loc[p].apiKey THEN "g_count" ELSE "g_read"

GetSelectMsa(p) ==
  /\ pc[p] = "g_selectMsa"
  /\ IF RowsNamed(loc[p].name) # {}
       THEN /\ loc' = [loc EXCEPT ![p].msa = CHOOSE r \in RowsNamed(loc[p].name) : TRUE]
            /\ pc' = [pc EXCEPT ![p] = AfterIdentity(p)]
       ELSE /\ loc' = loc
            /\ pc' = [pc EXCEPT ![p] = "g_upsertMsa"]
  /\ UNCHANGED <<started, slots, call, client, db, apiKey, extVersion>>

GetUpsertMsa(p) ==
  LET table == MsaUpsert(msa, loc[p].name, nextMsaId)
      row == CHOOSE r \in table : r.name = loc[p].name
  IN  /\ pc[p] = "g_upsertMsa"
      /\ msa' = table
      /\ nextMsaId' = IF table # msa THEN nextMsaId + 1 ELSE nextMsaId
      /\ codeWrites' = [i \in 1..(nextMsaId' - 1) |-> IF i \in DOMAIN codeWrites THEN codeWrites[i] ELSE 0]
      /\ loc' = [MarkDirty(loc, p, {}) EXCEPT ![p].msa = row]
      /\ pc' = [pc EXCEPT ![p] = AfterIdentity(p)]
      /\ UNCHANGED <<started, slots, call, client, msa_zip, metric_series, deals, nextDealId, apiKey, extVersion>>

\* the lazy refresh without its empty-cache gate
GetCount_NoGate(p) ==
  LET count == Len(SeriesOf(metric_series, loc[p].msa.id))
  IN  /\ pc[p] = "g_count"
      /\ loc' = [loc EXCEPT ![p].count = count, ![p].cbsaCode = loc[p].msa.cbsa_code]
      /\ pc' = [pc EXCEPT ![p] =
                  IF loc[p].msa.cbsa_code = Null THEN "g_resolve" ELSE "g_fetch"]
      /\ UNCHANGED <<started, slots, call, client, db, apiKey, extVersion>>

\* the lazy refresh skipped for an identity that already has its code
GetCount_SkipsWhenCodeStored(p) ==
  LET count == Len(SeriesOf(metric_series, loc[p].msa.id))
  IN  /\ pc[p] = "g_count"
      /\ loc' = [loc EXCEPT ![p].count = count, ![p].cbsaCode = loc[p].msa.cbsa_code]
      /\ pc' = [pc EXCEPT ![p] =
                  IF count # 0 \/ loc[p].msa.cbsa_code # Null THEN "g_read" ELSE "g_resolve"]
      /\ UNCHANGED <<started, slots, call, client, db, apiKey, extVersion>>

GetCount(p) ==
  LET count == Len(SeriesOf(metric_series, loc[p].msa.id))
  IN  /\ pc[p] = "g_count"
      /\ loc' = [loc EXCEPT ![p].count = count, ![p].cbsaCode = loc[p].msa.cbsa_code]
      /\ pc' = [pc EXCEPT ![p] =
                  IF count # 0 THEN "g_read"
                  ELSE IF loc[p].msa.cbsa_code = Null THEN "g_resolve" ELSE "g_fetch"]
      /\ UNCHANGED <<started, slots, call, client, db, apiKey, extVersion>>

\* the lazy refresh going on to the metric fetch without a code
GetResolve_UnresolvedContinues(p) ==
  /\ pc[p] = "g_resolve"
  /\ \E outcome \in {"ok", "http_error", "malformed"} :
       LET code == IF outcome = "ok" THEN CatalogCode[loc[p].msa.name] ELSE Null
           l == [loc[p] EXCEPT !.extCalls = @ + 1, !.resolveCalls = @ + 1,
                               !.extFailed = @ \/ outcome # "ok", !.cbsaCode = code]
       IN  IF outcome = "http_error"
             THEN /\ loc' = [loc EXCEPT ![p] = [l EXCEPT !.autoRefreshWarning = "resolve_failed"]]
                  /\ pc' = [pc EXCEPT ![p] = "g_read"]
           ELSE IF code = Null
             THEN /\ loc' = [loc EXCEPT ![p] = [l EXCEPT !.autoRefreshWarning = "unresolved"]]
                  /\ pc' = [pc EXCEPT ![p] = "g_fetch"]
           ELSE /\ loc' = [loc EXCEPT ![p] = l]
                /\ pc' = [pc EXCEPT ![p] = "g_update"]
  /\ UNCHANGED <<started, slots, call, client, db, apiKey, extVersion>>

\* resolveCbsaCode inside the lazy refresh: a non-2xx answer throws into the
\* handler's inner catch, a malformed body resolves to null
GetResolve(p) ==
  /\ pc[p] = "g_resolve"
  /\ \E outcome \in {"ok", "http_error", "malformed"} :
       LET code == IF outcome = "ok" THEN CatalogCode[loc[p].msa.name] ELSE Null
           l == [loc[p] EXCEPT !.extCalls = @ + 1, !.resolveCalls = @ + 1,
                               !.extFailed = @ \/ outcome # "ok", !.cbsaCode = code]
       IN  IF outcome = "http_error"
             THEN /\ loc' = [loc EXCEPT ![p] = [l EXCEPT !.autoRefreshWarning = "resolve_failed"]]
                  /\ pc' = [pc EXCEPT ![p] = "g_read"]
           ELSE IF code = Null
             THEN /\ loc' = [loc EXCEPT ![p] = [l EXCEPT !.autoRefreshWarning = "unresolved"]]
                  /\ pc' = [pc EXCEPT ![p] = "g_read"]
           ELSE /\ loc' = [loc EXCEPT ![p] = l]
                /\ pc' = [pc EXCEPT ![p] = "g_update"]
  /\ UNCHANGED <<started, slots, call, client, db, apiKey, extVersion>>

\* the update left out
MsaSetCode_Skipped(table, id, code) == table

\* .from('msa').update({ cbsa_code }).eq('id', id): the table after the statement
MsaSetCode(table, id, code) ==
  {IF r.id = id THEN [r EXCEPT !.cbsa_code = code] ELSE r : r \in table}

GetUpdateCode(p) ==
  LET id == loc[p].msa.id
  IN  /\ pc[p] = "g_update"
      /\ msa' = MsaSetCode(msa, id, loc[p].cbsaCode)
      /\ codeWrites' = IF \E r \in msa : r.id = id
                         THEN [codeWrites EXCEPT ![id] = @ + 1] ELSE codeWrites
      /\ loc' = MarkDirty(loc, p, {})
      /\ pc' = [pc EXCEPT ![p] = "g_fetch"]
      /\ UNCHANGED <<started, slots, call, client, msa_zip, metric_series, deals, nextMsaId, nextDealId, apiKey, extVersion>>

\* fetchCensusSeries inside the lazy refresh: every request of the batch is issued;
\* a non-2xx answer or a malformed body of any of them throws into the inner catch
GetFetch(p) ==
  /\ pc[p] = "g_fetch"
  /\ \E outcome \in {"ok", "http_error", "malformed"} :
       LET l == [loc[p] EXCEPT !.extCalls = @ + FetchRequestCount(CENSUS_ACS_LATEST_YEAR),
                               !.extFailed = @ \/ outcome # "ok"]
       IN  IF outcome = "ok"
             THEN /\ loc' = [loc EXCEPT ![p] =
                       [l EXCEPT !.ver = extVersion,
                                 !.census = SeriesRows(l.msa.id,
                                   CensusSeries[extVersion])]]
                  /\ pc' = [pc EXCEPT ![p] = "g_upsertSeries"]
             ELSE /\ loc' = [loc EXCEPT ![p] =
                       [l EXCEPT !.autoRefreshWarning =
                          IF outcome = "http_error" THEN "census_api_error" ELSE "census_no_data"]]
                  /\ pc' = [pc EXCEPT ![p] = "g_read"]
  /\ UNCHANGED <<started, slots, call, client, db, apiKey, extVersion>>

\* upsertSeriesValues inside the lazy refresh: the error it throws (here the
\* foreign key on msa_id, when the identity was deleted meanwhile) lands in the
\* inner catch and becomes the warning
GetUpsertSeries(p) ==
  /\ pc[p] = "g_upsertSeries"
  /\ IF (\E r \in msa : r.id = loc[p].msa.id) /\ SeriesConstraints(loc[p].census)
       THEN /\ metric_series' = SeriesUpsert(metric_series, loc[p].census)
            /\ loc' = [MarkDirty(loc, p, {}) EXCEPT ![p].wrote = TRUE]
       ELSE /\ metric_series' = metric_series
            /\ loc' = [loc EXCEPT ![p].autoRefreshWarning = "fk_violation",
                                   ![p].storeFailed = TRUE]
  /\ pc' = [pc EXCEPT ![p] = "g_read"]
  /\ UNCHANGED <<started, slots, call, client, msa, msa_zip, deals, nextMsaId, nextDealId, codeWrites, apiKey, extVersion>>

\* the response without the warning of the lazy refresh
GetRead_NoRefreshWarning(p) ==
  LET l == loc[p]
  IN  /\ pc[p] = "g_read"
      /\ loc' = Respond(loc, p, [NoResponse EXCEPT !.kind = "ok", !.status = 200,
                                   !.msa = l.msa,
                                   !.series = SeriesOf(metric_series, l.msa.id),
                                   !.zips = {z.zip : z \in {x \in msa_zip : x.msa_id = l.msa.id}},
                                   !.message = IF l.apiKey THEN "none" ELSE "no_api_key"])
      /\ pc' = [pc EXCEPT ![p] = "done"]
      /\ UNCHANGED <<started, slots, call, client, db, apiKey, extVersion>>

GetRead(p) ==
  LET l == loc[p]
      warning == IF l.autoRefreshWarning # "none" THEN l.autoRefreshWarning
                 ELSE IF l.apiKey THEN "none" ELSE "no_api_key"
  IN  /\ pc[p] = "g_read"
      /\ loc' = Respond(loc, p, [NoResponse EXCEPT !.kind = "ok", !.status = 200,
                                   !.msa = l.msa,
                                   !.series = SeriesOf(metric_series, l.msa.id),
                                   !.zips = {z.zip : z \in {x \in msa_zip : x.msa_id = l.msa.id}},
                                   !.message = warning])
      /\ pc' = [pc EXCEPT ![p] = "done"]
      /\ UNCHANGED <<started, slots, call, client, db, apiKey, extVersion>>

\* ------------------------------------------------------------------------
\* POST /api/market-intel/refresh: refreshMarket
\* ------------------------------------------------------------------------
StartRefresh(p, name) ==
  /\ CanStart(p)
  /\ started' = started + 1
  /\ LET l == [IdleLocals EXCEPT !.op = "refresh", !.name = name, !.apiKey = apiKey,
                                 !.cached = Cached(name)]
     IN  IF name = <<>>
           THEN /\ loc' = [loc EXCEPT ![p] = [l EXCEPT !.resp = ErrorResponse(400, "msa_required")]]
                /\ pc' = [pc EXCEPT ![p] = "done"]
         ELSE IF ~apiKey
           THEN /\ loc' = [loc EXCEPT ![p] = [l EXCEPT !.resp = ErrorResponse(500, "no_api_key")]]
                /\ pc' = [pc EXCEPT ![p] = "done"]
         ELSE /\ loc' = [loc EXCEPT ![p] = l]
              /\ pc' = [pc EXCEPT ![p] = "r_upsertMsa"]
  /\ UNCHANGED <<db, slots, call, client, apiKey, extVersion>>

RefreshUpsertMsa(p) ==
  LET table == MsaUpsert(msa, loc[p].name, nextMsaId)
      row == CHOOSE r \in table : r.name = loc[p].name
  IN  /\ pc[p] = "r_upsertMsa"
      /\ msa' = table
      /\ nextMsaId' = IF table # msa THEN nextMsaId + 1 ELSE nextMsaId
      /\ codeWrites' = [i \in 1..(nextMsaId' - 1) |-> IF i \in DOMAIN codeWrites THEN codeWrites[i] ELSE 0]
      /\ loc' = [MarkDirty(loc, p, {}) EXCEPT ![p].msa = row, ![p].cbsaCode = row.cbsa_code]
      /\ pc' = [pc EXCEPT ![p] = IF row.cbsa_code = Null THEN "r_resolve" ELSE "r_fetch"]
      /\ UNCHANGED <<started, slots, call, client, msa_zip, metric_series, deals, nextDealId, apiKey, extVersion>>

\* the forced refresh going on to the metric fetch without a code
RefreshResolve_UnresolvedContinues(p) ==
  /\ pc[p] = "r_resolve"
  /\ \E outcome \in {"ok", "http_error", "malformed"} :
       LET code == IF outcome = "ok" THEN CatalogCode[loc[p].name] ELSE Null
           l == [loc[p] EXCEPT !.extCalls = @ + 1, !.resolveCalls = @ + 1,
                               !.extFailed = @ \/ outcome # "ok", !.cbsaCode = code]
       IN  IF outcome = "http_error"
             THEN /\ loc' = [loc EXCEPT ![p] = [l EXCEPT !.resp = ErrorResponse(500, "resolve_failed")]]
                  /\ pc' = [pc EXCEPT ![p] = "done"]
           ELSE IF code = Null
             THEN /\ loc' = [loc EXCEPT ![p] = l]
                  /\ pc' = [pc EXCEPT ![p] = "r_fetch"]
           ELSE /\ loc' = [loc EXCEPT ![p] = l]
                /\ pc' = [pc EXCEPT ![p] = "r_update"]
  /\ UNCHANGED <<started, slots, call, client, db, apiKey, extVersion>>

RefreshResolve(p) ==
  /\ pc[p] = "r_resolve"
  /\ \E outcome \in {"ok", "http_error", "malformed"} :
       LET code == IF outcome = "ok" THEN CatalogCode[loc[p].name] ELSE Null
           l == [loc[p] EXCEPT !.extCalls = @ + 1, !.resolveCalls = @ + 1,
                               !.extFailed = @ \/ outcome # "ok", !.cbsaCode = code]
       IN  IF outcome = "http_error"
             THEN /\ loc' = [loc EXCEPT ![p] = [l EXCEPT !.resp = ErrorResponse(500, "resolve_failed")]]
                  /\ pc' = [pc EXCEPT ![p] = "done"]
           ELSE IF code = Null
             THEN /\ loc' = [loc EXCEPT ![p] = [l EXCEPT !.resp = ErrorResponse(400, "unresolved")]]
                  /\ pc' = [pc EXCEPT ![p] = "done"]
           ELSE /\ loc' = [loc EXCEPT ![p] = l]
                /\ pc' = [pc EXCEPT ![p] = "r_update"]
  /\ UNCHANGED <<started, slots, call, client, db, apiKey, extVersion>>

RefreshUpdateCode(p) ==
  LET id == loc[p].msa.id
  IN  /\ pc[p] = "r_update"
      /\ msa' = MsaSetCode(msa, id, loc[p].cbsaCode)
      /\ codeWrites' = IF \E r \in msa : r.id = id
                         THEN [codeWrites EXCEPT ![id] = @ + 1] ELSE codeWrites
      /\ loc' = MarkDirty(loc, p, {})
      /\ pc' = [pc EXCEPT ![p] = "r_fetch"]
      /\ UNCHANGED <<started, slots, call, client, msa_zip, metric_series, deals, nextMsaId, nextDealId, apiKey, extVersion>>

\* a failed metric fetch answered as a success
RefreshFetch_FailureIsSuccess(p) ==
  /\ pc[p] = "r_fetch"
  /\ \E outcome \in {"ok", "http_error", "malformed"} :
       LET l == [loc[p] EXCEPT !.extCalls = @ + FetchRequestCount(CENSUS_ACS_LATEST_YEAR),
                               !.extFailed = @ \/ outcome # "ok"]
       IN  IF outcome = "ok"
             THEN /\ loc' = [loc EXCEPT ![p] =
                       [l EXCEPT !.ver = extVersion,
                                 !.census = SeriesRows(l.msa.id,
                                   CensusSeries[extVersion])]]
                  /\ pc' = [pc EXCEPT ![p] = "r_upsertSeries"]
             ELSE /\ loc' = [loc EXCEPT ![p] =
                       [l EXCEPT !.resp = [NoResponse EXCEPT !.kind = "ok", !.status = 200]]]
                  /\ pc' = [pc EXCEPT ![p] = "done"]
  /\ UNCHANGED <<started, slots, call, client, db, apiKey, extVersion>>

RefreshFetch(p) ==
  /\ pc[p] = "r_fetch"
  /\ \E outcome \in {"ok", "http_error", "malformed"} :
       LET l == [loc[p] EXCEPT !.extCalls = @ + FetchRequestCount(CENSUS_ACS_LATEST_YEAR),
                               !.extFailed = @ \/ outcome # "ok"]
       IN  IF outcome = "ok"
             THEN /\ loc' = [loc EXCEPT ![p] =
                       [l EXCEPT !.ver = extVersion,
                                 !.census = SeriesRows(l.msa.id,
                                   CensusSeries[extVersion])]]
                  /\ pc' = [pc EXCEPT ![p] = "r_upsertSeries"]
             ELSE /\ loc' = [loc EXCEPT ![p] =
                       [l EXCEPT !.resp = ErrorResponse(500,
                          IF outcome = "http_error" THEN "census_api_error" ELSE "census_no_data")]]
                  /\ pc' = [pc EXCEPT ![p] = "done"]
  /\ UNCHANGED <<started, slots, call, client, db, apiKey, extVersion>>

RefreshUpsertSeries(p) ==
  /\ pc[p] = "r_upsertSeries"
  /\ IF (\E r \in msa : r.id = loc[p].msa.id) /\ SeriesConstraints(loc[p].census)
       THEN /\ metric_series' = SeriesUpsert(metric_series, loc[p].census)
            /\ loc' = [MarkDirty(loc, p, {}) EXCEPT
                         ![p].wrote = TRUE,
                         ![p].resp = [NoResponse EXCEPT !.kind = "ok", !.status = 200]]
       ELSE /\ metric_series' = metric_series
            /\ loc' = [loc EXCEPT ![p].resp = ErrorResponse(500, "fk_violation"),
                                   ![p].storeFailed = TRUE]
  /\ pc' = [pc EXCEPT ![p] = "done"]
  /\ UNCHANGED <<started, slots, call, client, msa, msa_zip, deals, nextMsaId, nextDealId, codeWrites, apiKey, extVersion>>

\* ------------------------------------------------------------------------
\* POST /api/upload-tracker
\* ------------------------------------------------------------------------
\* Array.from(new Set(deals.map(deal => deal.msaName?.trim()).filter(Boolean)))
RECURSIVE msaNamesOf(_, _)
msaNamesOf(file, seen) ==
  IF file = <<>> THEN <<>>
  ELSE LET name == trim(Head(file).msaName)
       IN  IF name = <<>> \/ name \in seen THEN msaNamesOf(Tail(file), seen)
           ELSE <<name>> \o msaNamesOf(Tail(file), seen \cup {name})

StartUpload(p, file) ==
  /\ CanStart(p)
  /\ started' = started + 1
  /\ loc' = [loc EXCEPT ![p] = [IdleLocals EXCEPT !.op = "upload", !.file = file]]
  /\ pc' = [pc EXCEPT ![p] = IF msaNamesOf(file, {}) # <<>> THEN "u_upsertMsas" ELSE "u_insertDeals"]
  /\ UNCHANGED <<db, slots, call, client, apiKey, extVersion>>

\* .from('msa').upsert(names.map(name => ({ name })), { onConflict: 'name' })
RECURSIVE MsaUpsertAll(_, _, _)
MsaUpsertAll(table, names, id) ==
  IF names = <<>> THEN [table |-> table, next |-> id]
  ELSE LET after == MsaUpsert(table, Head(names), id)
       IN  MsaUpsertAll(after, Tail(names), IF after # table THEN id + 1 ELSE id)

\* msaMap.get(name): the id the upsert returned for the name, 0 when it returned none
msaMapGet(rows, name) ==
  IF \E r \in rows : r.name = name THEN (CHOOSE r \in rows : r.name = name).id ELSE 0

zipRowsOf(file, rows) ==
  {[msa_id |-> msaMapGet(rows, trim(file[i].msaName)), zip |-> file[i].zip] :
     i \in {j \in DOMAIN file : /\ trim(file[j].msaName) # <<>>
                                /\ msaMapGet(rows, trim(file[j].msaName)) # 0
                                /\ file[j].zip # ""}}

UploadUpsertMsas(p) ==
  LET names == msaNamesOf(loc[p].file, {})
      result == MsaUpsertAll(msa, names, nextMsaId)
      msaRows == {r \in result.table : r.name \in Range(names)}
  IN  /\ pc[p] = "u_upsertMsas"
      /\ msa' = result.table
      /\ nextMsaId' = result.next
      /\ codeWrites' = [i \in 1..(nextMsaId' - 1) |-> IF i \in DOMAIN codeWrites THEN codeWrites[i] ELSE 0]
      /\ loc' = [MarkDirty(loc, p, {}) EXCEPT ![p].msas = msaRows]
      /\ pc' = [pc EXCEPT ![p] =
                  IF zipRowsOf(loc[p].file, msaRows) # {} THEN "u_upsertZips" ELSE "u_insertDeals"]
      /\ UNCHANGED <<started, slots, call, client, msa_zip, metric_series, deals, nextDealId, apiKey, extVersion>>

\* .from('msa_zip').upsert(zipRows, { onConflict: 'msa_id,zip' }); msa_id references msa
UploadUpsertZips(p) ==
  LET zipRows == zipRowsOf(loc[p].file, loc[p].msas)
  IN  /\ pc[p] = "u_upsertZips"
      /\ IF \A z \in zipRows : \E r \in msa : r.id = z.msa_id
           THEN /\ msa_zip' = msa_zip \cup zipRows
                /\ loc' = MarkDirty(loc, p, {})
                /\ pc' = [pc EXCEPT ![p] = "u_insertDeals"]
           ELSE /\ msa_zip' = msa_zip
                /\ loc' = Respond([loc EXCEPT ![p].storeFailed = TRUE], p,
                                  ErrorResponse(500, "fk_violation"))
                /\ pc' = [pc EXCEPT ![p] = "done"]
      /\ UNCHANGED <<started, slots, call, client, msa, metric_series, deals, nextMsaId, nextDealId, codeWrites, apiKey, extVersion>>

\* the rows of .from('deals').insert(dbRows): msa_id is the mapped id or null
dbRowAt(file, rows, firstId, i) ==
  [id |-> firstId + i - 1,
   msa_id |-> IF file[i].msaName # <<>> THEN msaMapGet(rows, trim(file[i].msaName)) ELSE 0,
   msa_name |-> file[i].msaName,
   city |-> file[i].city, state |-> file[i].state,
   evaluation_status |-> file[i].evaluationStatus,
   execution_stage |-> file[i].executionStage,
   notes |-> file[i].notes]

dbRowsOf(file, rows, firstId) == {dbRowAt(file, rows, firstId, i) : i \in DOMAIN file}

\* lib/supabase/mappers: a row of deals.deals as the pages' Deal
mapDealRow(row) ==
  [id |-> row.id, msaName |-> row.msa_name, city |-> row.city, state |-> row.state,
   evaluationStatus |-> row.evaluation_status, executionStage |-> row.execution_stage,
   notes |-> row.notes]

\* insertedDeals.map(mapDealRow): the inserted rows, in the order of the file
mappedDeals(file, rows, firstId) ==
  [i \in DOMAIN file |-> mapDealRow(dbRowAt(file, rows, firstId, i))]

UploadInsertDeals(p) ==
  LET dbRows == dbRowsOf(loc[p].file, loc[p].msas, nextDealId)
  IN  /\ pc[p] = "u_insertDeals"
      /\ IF \A d \in dbRows : d.msa_id = 0 \/ \E r \in msa : r.id = d.msa_id
           THEN /\ deals' = deals \cup dbRows
                /\ nextDealId' = nextDealId + Len(loc[p].file)
                /\ loc' = Respond(MarkDirty(loc, p, {}), p,
                                  [NoResponse EXCEPT !.kind = "ok", !.status = 200,
                                                     !.added = Len(loc[p].file),
                                                     !.deals = mappedDeals(loc[p].file, loc[p].msas,
                                                                           nextDealId)])
           ELSE /\ UNCHANGED <<deals, nextDealId>>
                /\ loc' = Respond([loc EXCEPT ![p].storeFailed = TRUE], p,
                                  ErrorResponse(500, "fk_violation"))
      /\ pc' = [pc EXCEPT ![p] = "done"]
      /\ UNCHANGED <<started, slots, call, client, msa, msa_zip, metric_series, nextMsaId, codeWrites, apiKey, extVersion>>

\* ------------------------------------------------------------------------
\* Deal removal and the external source
\* ------------------------------------------------------------------------
\* DELETE /api/deals/[id]
DeleteDeal(d) ==
  /\ d \in deals
  /\ deals' = deals \ {d}
  /\ loc' = MarkDirty(loc, 0, {})
  /\ UNCHANGED <<started, slots, call, client, msa, msa_zip, metric_series, nextMsaId, nextDealId, codeWrites,
                 apiKey, extVersion, pc>>

\* DELETE /api/deals
ClearDeals ==
  /\ deals # {}
  /\ deals' = {}
  /\ loc' = MarkDirty(loc, 0, {})
  /\ UNCHANGED <<started, slots, call, client, msa, msa_zip, metric_series, nextMsaId, nextDealId, codeWrites,
                 apiKey, extVersion, pc>>

\* the service is redeployed without CENSUS_API_KEY; requests in flight keep the
\* value they read when they started (before any series row is cached the run is
\* the one that starts without the credential)
CredentialRemoved ==
  /\ apiKey
  /\ metric_series # <<>>
  /\ apiKey' = FALSE
  /\ UNCHANGED <<started, slots, call, client, db, extVersion, pc, loc>>

\* the external source publishes new figures
ExternalDrift ==
  /\ extVersion < MaxVersion
  /\ \/ metric_series # <<>>
     \/ \E p \in Procs : loc[p].ver >= 0 \/ pc[p] \in {"g_fetch", "r_fetch"}
  /\ extVersion' = extVersion + 1
  /\ UNCHANGED <<started, slots, call, client, db, apiKey, pc, loc>>

Next ==
  \/ \E p \in Procs : StartList(p)
  \/ \E p \in Procs : ListSelectMsas(p)
  \/ \E p \in Procs : ListSelectDeals(p)
  \/ \E p \in Procs : ListPurge(p)
  \/ \E p \in Procs : ListSelectZips(p)
  \/ \E p \in Procs, name \in Names : StartGet(p, name)
  \/ \E p \in Procs : GetSelectMsa(p)
  \/ \E p \in Procs : GetUpsertMsa(p)
  \/ \E p \in Procs : GetCount(p)
  \/ \E p \in Procs : GetResolve(p)
  \/ \E p \in Procs : GetUpdateCode(p)
  \/ \E p \in Procs : GetFetch(p)
  \/ \E p \in Procs : GetUpsertSeries(p)
  \/ \E p \in Procs : GetRead(p)
  \/ \E p \in Procs, name \in Names \cup {<<>>} : StartRefresh(p, name)
  \/ \E p \in Procs : RefreshUpsertMsa(p)
  \/ \E p \in Procs : RefreshResolve(p)
  \/ \E p \in Procs : RefreshUpdateCode(p)
  \/ \E p \in Procs : RefreshFetch(p)
  \/ \E p \in Procs : RefreshUpsertSeries(p)
  \/ \E p \in Procs, file \in TrackerFiles : StartUpload(p, file)
  \/ \E p \in Procs : UploadUpsertMsas(p)
  \/ \E p \in Procs : UploadUpsertZips(p)
  \/ \E p \in Procs : UploadInsertDeals(p)
  \/ \E d \in deals : DeleteDeal(d)
  \/ ClearDeals
  \/ ExternalDrift
  \/ CredentialRemoved

Spec == Init /\ [][Next]_vars

\* requests one at a time
InitSequential == Init /\ slots = 1

SpecSequential == InitSequential /\ [][Next]_vars

\* one request per slot, overlapping in every way
InitConcurrent == Init /\ slots = 2

SpecConcurrent == InitConcurrent /\ [][Next]_vars

\* ------------------------------------------------------------------------
\* The market page asking for markets again and again
\* ------------------------------------------------------------------------
\* the page's effect on the selected market: GET /api/market-intel?msa=<name>,
\* sent after the response to the request before it, any number of times
GetAgain(name) ==
  /\ slots = 1
  /\ pc[1] \in {"idle", "done"}
  /\ started' = Min(started + 1, MaxSequentialRequests)
  /\ pc' = [pc EXCEPT ![1] = "g_selectMsa"]
  /\ loc' = [loc EXCEPT ![1] = [IdleLocals EXCEPT !.op = "get", !.name = name,
                                                    !.apiKey = apiKey,
                                                    !.cached = Cached(name)]]
  /\ UNCHANGED <<db, slots, call, client, apiKey, extVersion>>

\* the next statement of the request being served
HandlerStep ==
  \/ ListSelectMsas(1)
  \/ ListSelectDeals(1)
  \/ ListPurge(1)
  \/ ListSelectZips(1)
  \/ GetSelectMsa(1)
  \/ GetUpsertMsa(1)
  \/ GetCount(1)
  \/ GetResolve(1)
  \/ GetUpdateCode(1)
  \/ GetFetch(1)
  \/ GetUpsertSeries(1)
  \/ GetRead(1)

InitRetry == InitSequential /\ apiKey

NextRetry ==
  \/ \E name \in Names : GetAgain(name)
  \/ StartList(1)
  \/ HandlerStep

\* a request handler that was started runs to its response
SpecRetry == InitRetry /\ [][NextRetry]_vars /\ WF_vars(HandlerStep)

\* ------------------------------------------------------------------------
\* The market page: the names it requests
\* ------------------------------------------------------------------------
INVALID_LOCATION_VALUES ==
  {<<"u","n","k","n","o","w","n">>, <<"n","a">>, <<"n","/","a">>, <<"n","o","n","e">>,
   <<"-">>}

isValidLocationValue(value) ==
  LET cleaned == toLowerCase(trim(value))
  IN  value # <<>> /\ cleaned # <<>> /\ cleaned \notin INVALID_LOCATION_VALUES

\* the name the page derives from a deal: its market name, else `${city}, ${state}`
dealMsaName(deal) ==
  IF isValidLocationValue(deal.msa_name) THEN deal.msa_name
  ELSE IF isValidLocationValue(deal.city) /\ isValidLocationValue(deal.state)
    THEN deal.city \o <<",", " ">> \o deal.state
  ELSE <<>>

resolveDealMsaKey(deal) == normalizeMsaKey(dealMsaName(deal))

\* the names of the listing response: identities some deal references
activeMsaNames == {r.name : r \in {m \in msa : \E d \in deals : d.msa_id = m.id}}

\* baseMsas: one name per canonical key, the preferred one of those merged
\* (whichever of two names the merge keeps in some order of arrival)
baseMsas(names) ==
  {n \in names :
     /\ normalizeMsaKey(n) # <<>>
     /\ \A m \in names :
          (normalizeMsaKey(m) = normalizeMsaKey(n))
            => (choosePreferredMsaName(m, n) = n \/ choosePreferredMsaName(n, m) = n)}

\* filteredMsas: the base names with at least one deal of the same key
filteredMsas(names) ==
  {n \in baseMsas(names) : \E d \in deals : resolveDealMsaKey(d) = normalizeMsaKey(n)}

\* the names the page can select and request: from the deals while no listing
\* has arrived or the listing is empty, from the listing otherwise
requestableMsaNames ==
  filteredMsas({dealMsaName(d) : d \in deals})
    \cup filteredMsas(activeMsaNames)

\* a tracker whose deal has no market name, only a city and a state
CityStateFiles ==
  { << [msaName |-> <<>>, zip |-> "10001", city |-> <<"a">>, state |-> <<"b">>,
        evaluationStatus |-> "MISSING_INFO", executionStage |-> "UNPROCESSED",
        notes |-> ""] >> }

\* the next statement of the request being served, uploads and refreshes included
PageStep ==
  \/ HandlerStep
  \/ RefreshUpsertMsa(1)
  \/ RefreshResolve(1)
  \/ RefreshUpdateCode(1)
  \/ RefreshFetch(1)
  \/ RefreshUpsertSeries(1)
  \/ UploadUpsertMsas(1)
  \/ UploadUpsertZips(1)
  \/ UploadInsertDeals(1)

\* uploads, then the page loading the listing, requesting and refreshing the
\* markets it shows
NextPage ==
  \/ \E file \in CityStateFiles \cup TrackerFiles : StartUpload(1, file)
  \/ StartList(1)
  \/ \E name \in requestableMsaNames \cap Names : GetAgain(name)
  \/ \E name \in requestableMsaNames \cap Names : StartRefresh(1, name)
  \/ PageStep

SpecPage == InitRetry /\ [][NextPage]_vars /\ WF_vars(PageStep)

\* ------------------------------------------------------------------------
\* The client store (lib/store): the deal list the pages share
\* ------------------------------------------------------------------------
ExecutionStages == {"UNPROCESSED", "OUTREACH", "NEGOTIATION", "COMPLETED"}

EvaluationStatuses == {"REJECTED", "MISSING_INFO", "ACTIVE"}

\* what the user types into a deal's notes
NoteTexts == {"n"}

\* the columns deals are dropped on, and the statuses picked from a deal's menu
StageInputs == {"OUTREACH", "NEGOTIATION"}

StatusInputs == {"REJECTED"}

\* requests of the store that are out at the same time
MaxStoreCalls == 1

\* trackers uploaded from the upload panel
MaxUploads == 1

\* a fetch of the store: the request is sent, then answered, then the store
\* goes on after its await
StoreCall(op, dealId, status) ==
  [op |-> op, id |-> dealId, status |-> status, state |-> "sent", ok |-> FALSE,
   deals |-> <<>>]

CanCall == Cardinality(storeCalls) < MaxStoreCalls

Answered(c, ok, payload) ==
  (storeCalls \ {c}) \cup {[c EXCEPT !.state = "answered", !.ok = ok, !.deals = payload]}

storeIds == {storeDeals[i].id : i \in DOMAIN storeDeals}

\* .select('*').order('created_at', { ascending: false }): newest first
RECURSIVE RowsNewestFirst(_)
RowsNewestFirst(rows) ==
  IF rows = {} THEN <<>>
  ELSE LET r == CHOOSE x \in rows : \A y \in rows : y.id <= x.id
       IN  <<r>> \o RowsNewestFirst(rows \ {r})

\* prev.map(deal => deal.id === dealId ? { ...deal, [field]: value } : deal)
WithStage(list, dealId, stage) ==
  [i \in DOMAIN list |->
     IF list[i].id = dealId THEN [list[i] EXCEPT !.executionStage = stage] ELSE list[i]]

WithNotes(list, dealId, notes) ==
  [i \in DOMAIN list |->
     IF list[i].id = dealId THEN [list[i] EXCEPT !.notes = notes] ELSE list[i]]

WithStatus(list, dealId, status) ==
  [i \in DOMAIN list |->
     IF list[i].id = dealId THEN [list[i] EXCEPT !.evaluationStatus = status] ELSE list[i]]

\* refreshDeals up to its fetch: GET /api/deals leaves
refreshDeals ==
  /\ CanCall
  /\ storeCalls' = storeCalls \cup {StoreCall("refresh", 0, "")}
  /\ UNCHANGED <<storeDeals, db, apiKey, extVersion, started, slots, pc, loc, call>>

\* GET /api/deals: the rows as Deals, or an error
ServeGetDeals(c) ==
  /\ c.op = "refresh" /\ c.state = "sent"
  /\ \E ok \in BOOLEAN :
       storeCalls' = Answered(c, ok, IF ok THEN [i \in DOMAIN RowsNewestFirst(deals) |->
                                                  mapDealRow(RowsNewestFirst(deals)[i])]
                                          ELSE <<>>)
  /\ UNCHANGED <<storeDeals, db, apiKey, extVersion, started, slots, pc, loc, call>>

\* refreshDeals after its fetch: throws on an error response, else setDeals(payload.deals)
RefreshDealsReturn(c) ==
  /\ c.op = "refresh" /\ c.state = "answered"
  /\ storeDeals' = IF c.ok THEN c.deals ELSE storeDeals
  /\ storeCalls' = storeCalls \ {c}
  /\ UNCHANGED <<db, apiKey, extVersion, started, slots, pc, loc, call>>

updateDealExecutionStage(dealId, stage) ==
  /\ storeDeals' = WithStage(storeDeals, dealId, stage)
  /\ UNCHANGED <<storeCalls, db, apiKey, extVersion, started, slots, pc, loc, call>>

updateDealNotes(dealId, notes) ==
  /\ storeDeals' = WithNotes(storeDeals, dealId, notes)
  /\ UNCHANGED <<storeCalls, db, apiKey, extVersion, started, slots, pc, loc, call>>

\* addDeals(newDeals)
addDeals(newDeals) ==
  IF Len(newDeals) = 0 THEN storeDeals' = storeDeals
  ELSE storeDeals' = newDeals \o storeDeals

\* the upload panel's handleFileChange: POST /api/upload-tracker leaves
handleFileChange(file) ==
  /\ started < MaxUploads
  /\ StartUpload(1, file)

\* handleFileChange after its fetch: addDeals(payload.deals) unless the upload failed
handleFileChangeReturn ==
  /\ pc[1] = "done" /\ loc[1].op = "upload"
  /\ IF loc[1].resp.kind = "ok" THEN addDeals(loc[1].resp.deals)
     ELSE storeDeals' = storeDeals
  /\ pc' = [pc EXCEPT ![1] = "idle"]
  /\ loc' = [loc EXCEPT ![1] = IdleLocals]
  /\ UNCHANGED <<storeCalls, db, apiKey, extVersion, started, slots, call>>

\* updateDealEvaluationStatus up to its fetch: the list is changed, PATCH leaves
updateDealEvaluationStatus(dealId, status) ==
  /\ CanCall
  /\ storeDeals' = WithStatus(storeDeals, dealId, status)
  /\ storeCalls' = storeCalls \cup {StoreCall("patch", dealId, status)}
  /\ UNCHANGED <<db, apiKey, extVersion, started, slots, pc, loc, call>>

\* PATCH /api/deals/[id]: update({ evaluation_status }).eq('id', id), or an error
ServePatchDeal(c) ==
  /\ c.op = "patch" /\ c.state = "sent"
  /\ \E ok \in BOOLEAN :
       /\ storeCalls' = Answered(c, ok, <<>>)
       /\ IF ok /\ c.status \in EvaluationStatuses
            THEN /\ deals' = {IF d.id = c.id THEN [d EXCEPT !.evaluation_status = c.status]
                                              ELSE d : d \in deals}
                 /\ loc' = MarkDirty(loc, 0, {})
            ELSE UNCHANGED <<deals, loc>>
  /\ UNCHANGED <<storeDeals, msa, msa_zip, metric_series, nextMsaId, nextDealId, codeWrites,
                 apiKey, extVersion, started, slots, pc, call>>

\* removeDeal up to its fetch: the deal leaves the list, DELETE leaves
removeDeal(dealId) ==
  /\ CanCall
  /\ storeDeals' = SelectSeq(storeDeals, LAMBDA deal : deal.id # dealId)
  /\ storeCalls' = storeCalls \cup {StoreCall("delete", dealId, "")}
  /\ UNCHANGED <<db, apiKey, extVersion, started, slots, pc, loc, call>>

\* DELETE /api/deals/[id]: delete().eq('id', id), or an error
ServeDeleteDeal(c) ==
  /\ c.op = "delete" /\ c.state = "sent"
  /\ \E ok \in BOOLEAN :
       /\ storeCalls' = Answered(c, ok, <<>>)
       /\ IF ok
            THEN /\ deals' = {d \in deals : d.id # c.id}
                 /\ loc' = MarkDirty(loc, 0, {})
            ELSE UNCHANGED <<deals, loc>>
  /\ UNCHANGED <<storeDeals, msa, msa_zip, metric_series, nextMsaId, nextDealId, codeWrites,
                 apiKey, extVersion, started, slots, pc, call>>

\* clearDeals up to its fetch: the list is emptied, DELETE /api/deals leaves
clearDeals ==
  /\ CanCall
  /\ storeDeals' = <<>>
  /\ storeCalls' = storeCalls \cup {StoreCall("clear", 0, "")}
  /\ UNCHANGED <<db, apiKey, extVersion, started, slots, pc, loc, call>>

\* DELETE /api/deals: delete().not('id', 'is', null), or an error
ServeClearDeals(c) ==
  /\ c.op = "clear" /\ c.state = "sent"
  /\ \E ok \in BOOLEAN :
       /\ storeCalls' = Answered(c, ok, <<>>)
       /\ IF ok
            THEN /\ deals' = {}
                 /\ loc' = MarkDirty(loc, 0, {})
            ELSE UNCHANGED <<deals, loc>>
  /\ UNCHANGED <<storeDeals, msa, msa_zip, metric_series, nextMsaId, nextDealId, codeWrites,
                 apiKey, extVersion, started, slots, pc, call>>

\* updateDealEvaluationStatus, removeDeal and clearDeals after their fetch: done,
\* or on an error response: await refreshDeals().catch(() => undefined)
MutationReturn(c) ==
  /\ c.op \in {"patch", "delete", "clear"} /\ c.state = "answered"
  /\ storeCalls' = IF c.ok THEN storeCalls \ {c}
                   ELSE (storeCalls \ {c}) \cup {StoreCall("refresh", 0, "")}
  /\ UNCHANGED <<storeDeals, db, apiKey, extVersion, started, slots, pc, loc, call>>

InitStore == InitSequential /\ apiKey

NextStore ==
  \/ \E file \in TrackerFiles : handleFileChange(file)
  \/ UploadUpsertMsas(1)
  \/ UploadUpsertZips(1)
  \/ UploadInsertDeals(1)
  \/ handleFileChangeReturn
  \/ refreshDeals
  \/ \E c \in storeCalls : ServeGetDeals(c)
  \/ \E c \in storeCalls : RefreshDealsReturn(c)
  \/ \E dealId \in storeIds, stage \in StageInputs : updateDealExecutionStage(dealId, stage)
  \/ \E dealId \in storeIds, notes \in NoteTexts : updateDealNotes(dealId, notes)
  \/ \E dealId \in storeIds, status \in StatusInputs :
       updateDealEvaluationStatus(dealId, status)
  \/ \E c \in storeCalls : ServePatchDeal(c)
  \/ \E dealId \in storeIds : removeDeal(dealId)
  \/ \E c \in storeCalls : ServeDeleteDeal(c)
  \/ clearDeals
  \/ \E c \in storeCalls : ServeClearDeals(c)
  \/ \E c \in storeCalls : MutationReturn(c)

\* the pages working on the store while the server answers or fails
SpecStore == InitStore /\ [][NextStore]_vars

\* ------------------------------------------------------------------------
\* Properties
\* ------------------------------------------------------------------------
\* ------------------------------------------------------------------------
\* The tracker parser (lib/tracker/parse.ts)
\* ------------------------------------------------------------------------
\* the cells of a sheet row: absent, a string, or a number (whole amounts)
Undefined == [t |-> "undefined", s |-> <<>>, n |-> 0]

Text(s) == [t |-> "string", s |-> s, n |-> 0]

Num(n) == [t |-> "number", s |-> <<>>, n |-> n]

\* JavaScript truthiness of a cell
Truthy(cell) ==
  \/ cell.t = "string" /\ cell.s # <<>>
  \/ cell.t = "number" /\ cell.n # 0

\* a || b
Or(a, b) == IF Truthy(a) THEN a ELSE b

\* String(n) of a whole number
RECURSIVE NatToString(_)
NatToString(n) ==
  IF n < 10 THEN <<DigitChars[n + 1]>>
  ELSE NatToString(n \div 10) \o <<DigitChars[(n % 10) + 1]>>

NumberToString(n) == IF n < 0 THEN <<"-">> \o NatToString(-n) ELSE NatToString(n)

asString(cell) ==
  IF cell.t = "undefined" THEN <<>>
  ELSE IF cell.t = "number" THEN NumberToString(cell.n)
  ELSE trim(cell.s)

RECURSIVE DigitsValue(_, _)
DigitsValue(digits, acc) ==
  IF digits = <<>> THEN acc
  ELSE DigitsValue(Tail(digits),
                   10 * acc + (CHOOSE d \in 0..9 : DigitChars[d + 1] = Head(digits)))

IsDigits(str) == str # <<>> /\ \A i \in DOMAIN str : str[i] \in Range(DigitChars)

\* Number(cleaned) made finite: the empty string is 0, a string that is no
\* numeral is NaN and becomes 0 (the rows carry no decimal point)
asNumber(cell) ==
  IF cell.t = "number" THEN cell.n
  ELSE IF cell.t = "undefined" THEN 0
  ELSE LET cleaned == SelectSeq(cell.s, LAMBDA c : c \in Range(DigitChars) \cup {".", "-"})
       IN  IF IsDigits(cleaned) THEN DigitsValue(cleaned, 0)
           ELSE IF cleaned # <<>> /\ Head(cleaned) = "-" /\ IsDigits(Tail(cleaned))
             THEN -DigitsValue(Tail(cleaned), 0)
           ELSE 0

\* lib/normalization.ts
normalizeCapRate(value) ==
  IF value = Null THEN Null
  ELSE IF value[1] <= 0 THEN Null
  ELSE IF value[1] < 1 THEN Some(value[1] * 100)
  ELSE value

REQUIRED_FIELDS ==
  << [key |-> "address", label |-> "address"],
     [key |-> "city", label |-> "city"],
     [key |-> "state", label |-> "state"],
     [key |-> "units", label |-> "units"],
     [key |-> "noi", label |-> "NOI"],
     [key |-> "capRate", label |-> "cap rate"] >>

\* the values extractDealsFromRows reads from a row whose headers are normalized
parsedFields(row) ==
  LET msaName == asString(Or(row.msaName, row.msa))
      noiValue == asNumber(Or(row.noi, row.netOperatingIncome))
      units == asNumber(Or(row.units, row.unitCount))
  IN  [name |-> asString(Or(row.name, row.dealName)),
       address |-> asString(Or(row.address, row.street)),
       city |-> asString(row.city),
       state |-> asString(Or(row.state, row.st)),
       msaName |-> msaName,
       marketRaw |-> asString(Or(row.market, Text(msaName))),
       units |-> IF units > 0 THEN units ELSE 0,
       noi |-> IF noiValue > 0 THEN Some(noiValue) ELSE Null,
       capRate |-> normalizeCapRate(Some(asNumber(Or(row.capRate, row.rate))))]

\* the required fields looked up after the defaults of the deal were applied
isMissing_AfterDefaults(f, key) ==
  IF key = "address" THEN f.address = <<>>
  ELSE IF key = "city" THEN FALSE
  ELSE IF key = "state" THEN FALSE
  ELSE IF key = "units" THEN f.units <= 0
  ELSE IF key = "noi" THEN f.noi = Null
  ELSE IF key = "capRate" THEN f.capRate = Null
  ELSE FALSE

\* the filter of REQUIRED_FIELDS
isMissing(f, key) ==
  IF key = "address" THEN f.address = <<>>
  ELSE IF key = "city" THEN f.city = <<>>
  ELSE IF key = "state" THEN f.state = <<>>
  ELSE IF key = "units" THEN f.units <= 0
  ELSE IF key = "noi" THEN f.noi = Null
  ELSE IF key = "capRate" THEN f.capRate = Null
  ELSE FALSE

missingFieldsOf(f) ==
  LET missing == SelectSeq(REQUIRED_FIELDS, LAMBDA field : isMissing(f, field.key))
  IN  [i \in DOMAIN missing |-> missing[i].label]

\* !name && !address && !city && !state && !marketRaw
isSkipped(f) ==
  f.name = <<>> /\ f.address = <<>> /\ f.city = <<>> /\ f.state = <<>> /\ f.marketRaw = <<>>

\* the deal of a row that is not skipped
dealOf(f, index) ==
  LET missingFields == missingFieldsOf(f)
  IN  [name |-> IF f.name # <<>> THEN f.name
                ELSE <<"U","n","t","i","t","l","e","d"," ","D","e","a","l"," ">>
                       \o NatToString(index + 1),
       units |-> f.units,
       address |-> f.address,
       city |-> IF f.city # <<>> THEN f.city ELSE <<"U","n","k","n","o","w","n">>,
       state |-> IF f.state # <<>> THEN f.state ELSE <<"N","A">>,
       msaName |-> f.msaName,
       noi |-> f.noi,
       capRate |-> f.capRate,
       evaluationStatus |-> IF Len(missingFields) > 0 THEN "MISSING_INFO" ELSE "ACTIVE",
       missingFields |-> missingFields,
       rejectionReasons |-> <<>>,
       executionStage |-> "UNPROCESSED"]

\* rows.flatMap over the rows from the given index on
RECURSIVE extractFrom(_, _, _)
extractFrom(rows, index, acc) ==
  IF index >= Len(rows) THEN acc
  ELSE LET f == parsedFields(rows[index + 1])
       IN  IF isSkipped(f)
             THEN extractFrom(rows, index + 1, [acc EXCEPT !.skipped = @ + 1])
           ELSE extractFrom(rows, index + 1,
                            [acc EXCEPT !.deals = Append(@, dealOf(f, index))])

extractDealsFromRows(rows) == extractFrom(rows, 0, [deals |-> <<>>, skipped |-> 0])

\* ------------------------------------------------------------------------
\* The library functions applied on their own
\* ------------------------------------------------------------------------
\* catalog entries: [name, code] rows of the listing
DallasEntry == [name |-> <<"D","a","l","l","a","s","-","F","o","r","t"," ","W","o","r","t","h","-","A","r","l","i","n","g","t","o","n",","," ","T","X">>, code |-> <<"A">>]

FortWorthEntry == [name |-> <<"F","o","r","t"," ","W","o","r","t","h",","," ","T","X">>, code |-> <<"B">>]

FortWorthCityEntry == [name |-> <<"F","o","r","t"," ","W","o","r","t","h">>, code |-> <<"C">>]

RenoEntry == [name |-> <<"R","e","n","o",","," ","N","V">>, code |-> <<"D">>]

\* a row without a code: the scan skips it
NoCodeEntry == [name |-> <<"F","o","r","t"," ","W","o","r","t","h",","," ","T","X">>, code |-> <<>>]

CatalogEntries == {DallasEntry, FortWorthEntry, FortWorthCityEntry, RenoEntry, NoCodeEntry}

\* catalog listings hold at most this many rows
MaxCatalogLen == 3

RECURSIVE SeqsUpTo(_, _)
SeqsUpTo(S, n) ==
  IF n = 0 THEN {<<>>}
  ELSE LET shorter == SeqsUpTo(S, n - 1)
       IN  shorter \cup {Append(q, x) : q \in {r \in shorter : Len(r) = n - 1}, x \in S}

Catalogs == SeqsUpTo(CatalogEntries, MaxCatalogLen)

TargetFortWorth == <<"f","o","r","t"," ","w","o","r","t","h">>

ResolveTargets ==
  {TargetFortWorth, <<"F","o","r","t"," ","W","o","r","t","h",","," ","T","X"," ","M","e","t","r","o"," ","A","r","e","a">>,
   <<"W","a","c","o">>, <<"M","S","A">>}

ResolveCalls ==
  {[fn |-> "resolveCbsaCode", args |-> <<t, c>>, done |-> FALSE, result |-> <<>>] :
     t \in ResolveTargets, c \in Catalogs}

\* spellings of one market, as deals carry them
NashvilleCommaState == <<"N","a","s","h","v","i","l","l","e","-","D","a","v","i","d","s","o","n","-","M","u","r","f","r","e","e","s","b","o","r","o",","," ","T","N">>

NashvilleMsa == <<"N","a","s","h","v","i","l","l","e"," ","D","a","v","i","d","s","o","n"," ","M","u","r","f","r","e","e","s","b","o","r","o"," ","M","S","A">>

NashvilleSpaceState == <<"n","a","s","h","v","i","l","l","e","-","d","a","v","i","d","s","o","n","-","m","u","r","f","r","e","e","s","b","o","r","o"," ","t","n">>

NashvilleVariants == {NashvilleCommaState, NashvilleMsa, NashvilleSpaceState}

MarketSpellings ==
  NashvilleVariants \cup
    {<<"N","a","s","h","v","i","l","l","e","-","D","a","v","i","d","s","o","n","-","M","u","r","f","r","e","e","s","b","o","r","o",","," ","T","e","n","n","e","s","s","e","e">>,
     <<"N","a","s","h","v","i","l","l","e","-","D","a","v","i","d","s","o","n","-","M","u","r","f","r","e","e","s","b","o","r","o",","," ","T","N"," ","M","e","t","r","o"," ","A","r","e","a">>,
     <<" "," ","N","A","S","H","V","I","L","L","E"," ","D","A","V","I","D","S","O","N"," ","M","U","R","F","R","E","E","S","B","O","R","O",",","T","N"," ">>, <<>>}

NormalizeMsaKeyCalls ==
  {[fn |-> "normalizeMsaKey", args |-> <<v>>, done |-> FALSE, result |-> <<>>] :
     v \in MarketSpellings}

\* display names: empty, with and without metro phrase and state suffix, of equal
\* length in both cases, and two that differ in canonically equivalent characters
DisplayNames ==
  {<<>>, <<"A","b">>, <<"a","B">>, <<"B","a">>, <<"A","b",","," ","T","X">>, <<"B","a",","," ","t","x">>,
   <<"A","b"," ","m","s","a">>, <<"K","b">>, <<KelvinSign, "b">>}

ChoosePreferredCalls ==
  {[fn |-> "choosePreferredMsaName", args |-> <<a, b>>, done |-> FALSE, result |-> <<>>] :
     a \in DisplayNames, b \in DisplayNames}

\* metric values: null, zero, and values whose growth quotient is and is not a
\* binary fraction
GrowthValues == {Null, Some(0), Some(3), Some(100), Some(107), Some(110), Some(125)}

ComputeGrowthCalls ==
  {[fn |-> "computeGrowth", args |-> <<c, p>>, done |-> FALSE, result |-> <<>>] :
     c \in GrowthValues, p \in GrowthValues}

NormalizeNameCalls ==
  {[fn |-> "normalizeName", args |-> <<v>>, done |-> FALSE, result |-> <<>>] :
     v \in MarketSpellings}

\* configured latest years: from two years before the first supported year on
LatestYears == (MinYear - 2)..CENSUS_ACS_LATEST_YEAR

FetchCensusSeriesCalls ==
  {[fn |-> "fetchCensusSeries", args |-> <<latestYear, outcome>>, done |-> FALSE,
    result |-> <<>>] :
     latestYear \in LatestYears, outcome \in {"ok", "http_error", "malformed"}}

\* cells of the text columns and of the amount columns
TextCells == {Undefined, Text(<<" ">>), Text(<<"x">>)}

AmountCells == {Undefined, Num(0), Num(-5), Num(7), Text(<<"1",",","2","0","0">>),
                Text(<<"n","/","a">>)}

\* a row with no cell at all
EmptyRow ==
  [name |-> Undefined, dealName |-> Undefined, address |-> Undefined,
   street |-> Undefined, city |-> Undefined, state |-> Undefined, st |-> Undefined,
   market |-> Undefined, msaName |-> Undefined, msa |-> Undefined,
   units |-> Undefined, unitCount |-> Undefined, noi |-> Undefined,
   netOperatingIncome |-> Undefined, capRate |-> Undefined, rate |-> Undefined]

\* a row with every required cell
FullRow ==
  [EmptyRow EXCEPT !.name = Text(<<"n">>), !.address = Text(<<"1"," ","M">>),
                   !.city = Text(<<"c">>), !.state = Text(<<"T","X">>),
                   !.units = Num(10), !.noi = Num(100), !.capRate = Num(6)]

\* rows that differ from the full row or from the empty row in up to two of their
\* columns
RowsAround(base) ==
  {[[base EXCEPT ![c1] = v1] EXCEPT ![c2] = v2] :
     c1 \in {"name", "address", "city", "state"}, v1 \in TextCells,
     c2 \in {"units", "noi", "capRate"}, v2 \in AmountCells}
  \cup
  {[[base EXCEPT ![c1] = v1] EXCEPT ![c2] = v2] :
     c1 \in {"address", "market", "msa", "street", "st"}, v1 \in TextCells,
     c2 \in {"name", "dealName", "city", "msaName"}, v2 \in TextCells}
  \cup
  {[[base EXCEPT ![c1] = v1] EXCEPT ![c2] = v2] :
     c1 \in {"units", "noi", "capRate"}, v1 \in AmountCells,
     c2 \in {"unitCount", "netOperatingIncome", "rate"}, v2 \in AmountCells}

SheetRows == RowsAround(FullRow) \cup RowsAround(EmptyRow)

\* sheets of one row, and sheets of up to three rows of three kinds
Sheets ==
  {<<row>> : row \in SheetRows}
    \cup SeqsUpTo({EmptyRow, FullRow, [EmptyRow EXCEPT !.msa = Text(<<"x">>)]}, 3)

ExtractDealsCalls ==
  {[fn |-> "extractDealsFromRows", args |-> <<rows>>, done |-> FALSE, result |-> <<>>] :
     rows \in Sheets}

PureCalls ==
  ResolveCalls \cup NormalizeMsaKeyCalls \cup ChoosePreferredCalls \cup ComputeGrowthCalls
    \cup NormalizeNameCalls \cup FetchCensusSeriesCalls \cup ExtractDealsCalls

InitPure ==
  /\ call \in PureCalls
  /\ msa = {}
  /\ msa_zip = {}
  /\ metric_series = <<>>
  /\ deals = {}
  /\ nextMsaId = 1
  /\ nextDealId = 1
  /\ apiKey = FALSE
  /\ extVersion = 0
  /\ codeWrites = <<>>
  /\ started = 0
  /\ slots = 1
  /\ pc = [p \in Procs |-> "idle"]
  /\ loc = [p \in Procs |-> IdleLocals]
  /\ storeDeals = DEALS
  /\ storeCalls = {}

Return(value) ==
  /\ ~call.done
  /\ call' = [call EXCEPT !.done = TRUE, !.result = value]
  /\ UNCHANGED <<db, apiKey, extVersion, started, slots, pc, loc, client>>

ApplyResolveCbsaCode ==
  /\ call.fn = "resolveCbsaCode"
  /\ Return(resolveCbsaCode(call.args[1], call.args[2]))

ApplyNormalizeMsaKey ==
  /\ call.fn = "normalizeMsaKey"
  /\ Return(normalizeMsaKey(call.args[1]))

ApplyChoosePreferredMsaName ==
  /\ call.fn = "choosePreferredMsaName"
  /\ Return(choosePreferredMsaName(call.args[1], call.args[2]))

ApplyComputeGrowth ==
  /\ call.fn = "computeGrowth"
  /\ Return(computeGrowth(call.args[1], call.args[2]))

ApplyNormalizeName ==
  /\ call.fn = "normalizeName"
  /\ Return(normalizeName(call.args[1]))

ApplyFetchCensusSeries ==
  /\ call.fn = "fetchCensusSeries"
  /\ Return(fetchCensusSeriesCall(0, call.args[1], call.args[2]))

ApplyExtractDealsFromRows ==
  /\ call.fn = "extractDealsFromRows"
  /\ Return(extractDealsFromRows(call.args[1]))

NextPure ==
  \/ ApplyResolveCbsaCode
  \/ ApplyNormalizeName
  \/ ApplyFetchCensusSeries
  \/ ApplyExtractDealsFromRows
  \/ ApplyComputeGrowth
  \/ ApplyChoosePreferredMsaName
  \/ ApplyNormalizeMsaKey

SpecPure == InitPure /\ [][NextPure]_vars

Gets == {p \in Procs : loc[p].op = "get"}

Refreshes == {p \in Procs : loc[p].op = "refresh"}

Lists == {p \in Procs : loc[p].op = "list"}

HasIdentity(id) == \E r \in msa : r.id = id

IdentityRow(id) == CHOOSE r \in msa : r.id = id

\* the rows one successful refresh of identity id writes while the source serves version v
RefreshedSeries(id, v) == SeriesRows(id, CensusSeries[v])

\* C1: a getMarketIntel for a market that has cached series rows (rows counted by
\* its cache check, or rows present when a request that runs alone arrives) makes
\* no external request, neither catalog listing nor metric values, and writes no
\* series rows
C1_CachedGetIsServedFromCache ==
  \A p \in Gets :
    (loc[p].count > 0 \/ (loc[p].cached /\ slots = 1))
      => /\ loc[p].extCalls = 0
         /\ loc[p].resolveCalls = 0
         /\ ~loc[p].wrote

\* C1 witness: a second getMarketIntel, after the cache was populated from the
\* external source, has answered with the cached rows and zero external requests
C1_Witness ==
  \E p \in Gets :
    /\ pc[p] = "done" /\ slots = 1
    /\ loc[p].cached /\ loc[p].count > 0
    /\ loc[p].extCalls = 0
    /\ loc[p].resp.kind = "ok"
    /\ loc[p].resp.series = RefreshedSeries(loc[p].msa.id, 0)

\* C2: with a credential, an empty cache, a name that resolves and an external
\* source that answers every call, one getMarketIntel whose identity is not deleted
\* under it resolves the code exactly when the identity row had none, leaves the
\* code stored on the identity, has fetched and persisted the series, returns the
\* full set of series rows in its response and leaves the cache populated
C2_LazyRefreshPopulates ==
  \A p \in Gets :
    (/\ pc[p] = "done" /\ loc[p].apiKey
     /\ loc[p].count = 0
     /\ ~loc[p].extFailed
     /\ loc[p].cbsaCode # Null
     /\ ~loc[p].gcHit)
      => /\ loc[p].resolveCalls = (IF loc[p].msa.cbsa_code = Null THEN 1 ELSE 0)
         /\ loc[p].extCalls = loc[p].resolveCalls + FetchRequestCount(CENSUS_ACS_LATEST_YEAR)
         /\ loc[p].wrote
         /\ loc[p].resp.kind = "ok"
         /\ \E v \in Versions : loc[p].resp.series = RefreshedSeries(loc[p].msa.id, v)
         /\ HasIdentity(loc[p].msa.id)
         /\ IdentityRow(loc[p].msa.id).cbsa_code = loc[p].cbsaCode
         /\ SeriesOf(metric_series, loc[p].msa.id) # <<>>

\* C2 witness: such a call has finished, having resolved the code itself and
\* returned the rows it fetched
C2_Witness ==
  \E p \in Gets :
    /\ pc[p] = "done" /\ loc[p].count = 0 /\ ~loc[p].extFailed /\ ~loc[p].gcHit
    /\ loc[p].resolveCalls = 1 /\ loc[p].wrote
    /\ loc[p].resp.series = loc[p].census
    /\ IdentityRow(loc[p].msa.id).cbsa_code = <<"1","0">>

\* C3: a refreshMarket that has a code (stored, or resolved first, which it does
\* exactly when the identity row had none) issues the metric fetch whether or not
\* the cache is populated, and when the fetch succeeds and the identity is still
\* there it persists the series again: run alone, the store then holds exactly
\* the fetched rows.  Listing, upload, and a getMarketIntel that finds the cache
\* populated make no external request
C3_ForcedRefreshBypassesGate ==
  /\ \A p \in Refreshes :
       /\ loc[p].msa.id # 0 /\ pc[p] \notin {"r_resolve"}
            => loc[p].resolveCalls = (IF loc[p].msa.cbsa_code = Null THEN 1 ELSE 0)
       /\ pc[p] = "done" /\ loc[p].cbsaCode # Null
            => loc[p].extCalls = loc[p].resolveCalls + FetchRequestCount(CENSUS_ACS_LATEST_YEAR)
       /\ pc[p] = "done" /\ loc[p].cbsaCode # Null /\ ~loc[p].extFailed /\ ~loc[p].gcHit
            => /\ loc[p].wrote
               /\ loc[p].resp.kind = "ok"
               /\ slots = 1 => SeriesOf(metric_series, loc[p].msa.id) = loc[p].census
  /\ \A p \in Procs :
       (loc[p].op \in {"list", "upload"} \/ (loc[p].op = "get" /\ loc[p].count > 0))
         => loc[p].extCalls = 0

\* C3 witness: a forced refresh of a market whose cache was populated with older
\* figures has fetched and stored the new ones
C3_Witness ==
  \E p \in Refreshes :
    /\ pc[p] = "done" /\ slots = 1 /\ loc[p].cached /\ loc[p].wrote
    /\ loc[p].ver = 1
    /\ loc[p].resolveCalls = 0
    /\ SeriesOf(metric_series, loc[p].msa.id) = RefreshedSeries(loc[p].msa.id, 1)
    /\ RefreshedSeries(loc[p].msa.id, 1) # RefreshedSeries(loc[p].msa.id, 0)

SeriesUnique ==
  \A i, j \in DOMAIN metric_series :
    SeriesKey(metric_series[i]) = SeriesKey(metric_series[j]) => i = j

UpsertsSeries(p) ==
  /\ pc[p] \in {"g_upsertSeries", "r_upsertSeries"}
  /\ pc'[p] # pc[p]
  /\ HasIdentity(loc[p].msa.id)

\* C4: the series table never holds two rows for one (market, metric, period),
\* and an upsert whose payload the table already holds, as after a first upsert of
\* that payload, leaves the table exactly as it was
C4_UpsertConverges ==
  /\ []SeriesUnique
  /\ [][\A p \in Procs :
          (UpsertsSeries(p) /\ Range(loc[p].census) \subseteq Range(metric_series))
            => metric_series' = metric_series]_vars

\* C4 witness: a refresh has upserted, into a populated cache, the payload the
\* cache already held
C4_Witness ==
  \E p \in Refreshes :
    /\ pc[p] = "done" /\ loc[p].cached /\ loc[p].wrote
    /\ extVersion = 0
    /\ metric_series = loc[p].census

\* C5: two overlapping getMarketIntel calls for one market that both found its
\* cache empty, were served the same figures by the external source and both
\* persisted them (the source was queried by both) leave the series of that
\* market exactly as one refresh writes them: one row per (market, metric, period)
C5_ConcurrentLazyRefreshConverges ==
  \A p, q \in Gets :
    (/\ p # q
     /\ pc[p] = "done" /\ pc[q] = "done"
     /\ loc[p].name = loc[q].name
     /\ loc[p].msa.id = loc[q].msa.id
     /\ loc[p].count = 0 /\ loc[q].count = 0
     /\ loc[p].wrote /\ loc[q].wrote
     /\ loc[p].ver = loc[q].ver
     /\ ~loc[p].gcHit /\ ~loc[q].gcHit)
      => /\ SeriesOf(metric_series, loc[p].msa.id) = RefreshedSeries(loc[p].msa.id, loc[p].ver)
         /\ Len(SeriesOf(metric_series, loc[p].msa.id)) = Len(SeriesKeys) * Len(Periods)
         /\ SeriesUnique

\* C5 witness: both calls of such a race have queried the external source and written
C5_Witness ==
  \E p, q \in Gets :
    /\ p # q /\ pc[p] = "done" /\ pc[q] = "done"
    /\ loc[p].msa.id = loc[q].msa.id
    /\ loc[p].count = 0 /\ loc[q].count = 0
    /\ loc[p].wrote /\ loc[q].wrote /\ loc[p].ver = loc[q].ver
    /\ loc[p].extCalls > 0 /\ loc[q].extCalls > 0
    /\ SeriesOf(metric_series, loc[p].msa.id) = loc[q].census

\* the identity row a request holds for a market name (0: none yet)
IdentityHeld(p, name) ==
  IF loc[p].op = "upload" THEN msaMapGet(loc[p].msas, name)
  ELSE IF loc[p].op \in {"get", "refresh"} /\ loc[p].name = name THEN loc[p].msa.id
  ELSE 0

\* C6: two overlapping requests (getMarketIntel, refreshMarket or upload) that
\* have both obtained the identity of one display name, neither identity having
\* been deleted under them, hold the same row id, and the table has exactly one
\* row of that name
C6_ConcurrentIdentityConverges ==
  \A name \in Names : \A p, q \in Procs :
    (/\ p # q
     /\ IdentityHeld(p, name) # 0 /\ IdentityHeld(q, name) # 0
     /\ ~loc[p].gcHit /\ ~loc[q].gcHit)
      => /\ IdentityHeld(p, name) = IdentityHeld(q, name)
         /\ Cardinality(RowsNamed(name)) = 1

\* C6 witness: an upload and a getMarketIntel overlapped on an unseen name, both
\* are past their identity upsert, and they hold the one id that was allocated
C6_Witness ==
  \E p, q \in Procs :
    /\ loc[p].op = "upload" /\ loc[q].op = "get"
    /\ loc[q].name = NameAB
    /\ pc[q] \notin {"g_selectMsa", "g_upsertMsa"}
    /\ IdentityHeld(p, NameAB) # 0 /\ IdentityHeld(q, NameAB) = IdentityHeld(p, NameAB)
    /\ nextMsaId = 2

\* C7: no two identity rows have display names with the same canonical key
C7_CanonicalKeyUnique ==
  \A r1, r2 \in msa :
    normalizeMsaKey(r1.name) = normalizeMsaKey(r2.name) => r1 = r2

\* C8: the code of an identity is stored by at most one update statement
C8_CodeWrittenAtMostOnce ==
  \A id \in DOMAIN codeWrites : codeWrites[id] <= 1

\* C9: when listMarkets has run with no other writer, every identity it read that
\* no deal references is absent from its output and gone from the store with its
\* series rows and postal rows, and every identity it read that a deal references
\* is in its output and still stored
C9_ListingCollectsUnreferenced ==
  \A p \in Lists :
    (pc[p] = "done" /\ ~loc[p].dirty)
      => \A m \in loc[p].msas :
           IF \E d \in deals : d.msa_id = m.id
             THEN /\ \E o \in loc[p].resp.msas : o.name = m.name
                  /\ m \in msa
             ELSE /\ ~\E o \in loc[p].resp.msas : o.name = m.name
                  /\ ~HasIdentity(m.id)
                  /\ SeriesOf(metric_series, m.id) = <<>>
                  /\ ~\E z \in msa_zip : z.msa_id = m.id

\* C9 witness: a listing has kept one identity and deleted another that had
\* lost its last referencing deal
C9_Witness ==
  \E p \in Lists :
    /\ pc[p] = "done" /\ ~loc[p].dirty
    /\ staleMsaIds(loc[p]) # {}
    /\ loc[p].resp.msas # {}
    /\ deals # {}

\* C9 witness of the cascade: the deleted identity had series rows and postal rows
C9_WitnessCascade ==
  \E p \in Lists :
    /\ pc[p] = "l_purge" /\ ~loc[p].dirty
    /\ \E id \in staleMsaIds(loc[p]) :
         /\ SeriesOf(metric_series, id) # <<>>
         /\ \E z \in msa_zip : z.msa_id = id

\* C10: a getMarketIntel whose lazy refresh met a failing external call has
\* written no series rows and answers with a success result that carries a
\* warning and the series rows cached for the market when it read them
C10_LazyRefreshFailureIsWarning ==
  \A p \in Gets :
    loc[p].extFailed
      => /\ ~loc[p].wrote
         /\ pc[p] \in {"g_read", "done"}
         /\ pc[p] = "done"
              => /\ loc[p].resp.kind = "ok"
                 /\ loc[p].resp.message \notin {"none", "no_api_key"}
                 /\ ~loc[p].dirty => loc[p].resp.series = SeriesOf(metric_series, loc[p].msa.id)

\* C10 witness: the metric-values call failed and the call answered with data
\* another request had cached meanwhile
C10_Witness ==
  \E p \in Gets :
    /\ pc[p] = "done" /\ loc[p].extFailed
    /\ loc[p].resp.message = "census_api_error"
    /\ loc[p].resp.series # <<>>

\* C11: the step in which an external call of refreshMarket fails (catalog
\* listing or metric values, non-2xx or malformed) ends the request with an
\* error result and leaves every series row as it was; the request had written
\* no series row before it
C11_RefreshFailureIsError ==
  [][\A p \in Procs :
       (loc'[p].op = "refresh" /\ loc'[p].extFailed /\ ~loc[p].extFailed)
         => /\ metric_series' = metric_series
            /\ ~loc'[p].wrote
            /\ pc'[p] = "done"
            /\ loc'[p].resp.kind = "error"
            /\ loc'[p].resp.status \in {400, 500}]_vars

\* C11 witness: a refreshMarket for a market with cached series rows has failed
\* at the metric fetch and answered with the error
C11_Witness ==
  \E p \in Refreshes :
    /\ pc[p] = "done" /\ loc[p].extFailed
    /\ loc[p].resp.message = "census_api_error"
    /\ SeriesOf(metric_series, loc[p].msa.id) # <<>>

\* C12: a listMarkets, getMarketIntel or refreshMarket in which a store statement
\* failed (the series upsert of a lazy refresh included) has made no further
\* step and answers with an error result that carries the storage error message
C12_PersistenceFailureIsError ==
  \A p \in Gets \cup Refreshes \cup Lists :
    loc[p].storeFailed
      => /\ pc[p] = "done"
         /\ loc[p].resp.kind = "error"
         /\ loc[p].resp.message = "fk_violation"

\* C13: a getMarketIntel that started with no credential configured makes no
\* external call and writes nothing; it answers with a success result whose
\* warning is the missing-credential message and whose series are exactly the
\* rows cached for the market (none when nothing is cached)
C13_NoCredentialGetIsCacheOnly ==
  \A p \in Gets :
    ~loc[p].apiKey
      => /\ loc[p].extCalls = 0
         /\ loc[p].resolveCalls = 0
         /\ ~loc[p].wrote
         /\ pc[p] = "done"
              => /\ loc[p].resp.kind = "ok"
                 /\ loc[p].resp.message = "no_api_key"
                 /\ ~loc[p].dirty => loc[p].resp.series = SeriesOf(metric_series, loc[p].msa.id)

\* C13 witness: the credential was removed after the market's series were cached
\* and a getMarketIntel has answered with the cached rows and the warning
C13_Witness ==
  \E p \in Gets :
    /\ pc[p] = "done" /\ ~loc[p].apiKey /\ ~loc[p].dirty
    /\ loc[p].resp.message = "no_api_key"
    /\ loc[p].resp.series # <<>>

\* C13 witness of the empty case: nothing cached, the answer is empty
C13_WitnessEmpty ==
  \E p \in Gets :
    /\ pc[p] = "done" /\ ~loc[p].apiKey /\ ~loc[p].dirty
    /\ loc[p].resp.message = "no_api_key"
    /\ loc[p].resp.series = <<>> /\ loc[p].resp.zips = {}

\* C14: no listMarkets, getMarketIntel or refreshMarket answers with an error
\* result whose only cause is the missing credential
C14_NoCredentialIsNeverFatal ==
  \A p \in Gets \cup Refreshes \cup Lists :
    ~(loc[p].resp.kind = "error" /\ loc[p].resp.message = "no_api_key")

\* C15: a getMarketIntel whose resolver call returned no code (no catalog entry
\* matches, or the catalog body is unusable) makes no metric request and writes
\* nothing, goes on to the reads and answers with a success result carrying the
\* unresolved warning; unless another request changed the store meanwhile the
\* identity is still stored with a null code and no series rows
C15_UnresolvedIsWarning ==
  \A p \in Gets :
    (loc[p].resolveCalls = 1 /\ loc[p].cbsaCode = Null
       /\ loc[p].autoRefreshWarning # "resolve_failed")
      => /\ loc[p].extCalls = 1
         /\ ~loc[p].wrote
         /\ pc[p] \in {"g_read", "done"}
         /\ pc[p] = "done"
              => /\ loc[p].resp.kind = "ok"
                 /\ loc[p].resp.message = "unresolved"
                 /\ loc[p].resp.series = <<>> \/ loc[p].dirty
         /\ ~loc[p].dirty
              => /\ HasIdentity(loc[p].msa.id)
                 /\ IdentityRow(loc[p].msa.id).cbsa_code = Null
                 /\ SeriesOf(metric_series, loc[p].msa.id) = <<>>

\* C15 witness: the catalog was served and holds no entry for the name; the call
\* has answered with the warning and the identity is stored without a code
C15_Witness ==
  \E p \in Gets :
    /\ pc[p] = "done" /\ loc[p].name = NameQ /\ ~loc[p].extFailed
    /\ loc[p].resp.message = "unresolved"
    /\ HasIdentity(loc[p].msa.id)
    /\ IdentityRow(loc[p].msa.id).cbsa_code = Null

\* C16: with a catalog that holds "Dallas-Fort Worth-Arlington, TX" (code A) and
\* "Fort Worth, TX" (code B), in either order, resolving "fort worth" returns B,
\* the code of the containment match with the shorter normalized key
C16_ShorterContainmentMatchWins ==
  (/\ call.fn = "resolveCbsaCode" /\ call.done
   /\ call.args[1] = TargetFortWorth
   /\ call.args[2] \in {<<DallasEntry, FortWorthEntry>>, <<FortWorthEntry, DallasEntry>>})
    => call.result = FortWorthEntry.code

\* the catalog rows the scan looks at (rows with a name and a code), those whose
\* normalized name equals the normalized target, and the containment candidates
UsableRows(rows) == {i \in DOMAIN rows : rows[i].name # <<>> /\ rows[i].code # <<>>}

ExactRows(target, rows) ==
  {i \in UsableRows(rows) : normalizeName(rows[i].name) = normalizeName(target)}

ContainmentRows(target, rows) ==
  {i \in UsableRows(rows) :
     \/ includes(normalizeName(rows[i].name), normalizeName(target))
     \/ includes(normalizeName(target), normalizeName(rows[i].name))}

ContainmentScore(target, rows, i) ==
  Min(Len(normalizeName(rows[i].name)), Len(normalizeName(target)))

\* C20: resolveCode returns the code of the first entry whose normalized name
\* equals the normalized target when there is one, even behind a containment
\* candidate; otherwise the code of a containment candidate of maximum score
\* min(length of its key, length of the target key); otherwise null; and null
\* exactly when no entry matches exactly or by containment
C20_ResolveScan ==
  (call.fn = "resolveCbsaCode" /\ call.done)
    => LET target == call.args[1]
           rows == call.args[2]
           exact == ExactRows(target, rows)
           contained == ContainmentRows(target, rows)
       IN  /\ IF exact # {}
                 THEN call.result = rows[CHOOSE i \in exact : \A j \in exact : i <= j].code
               ELSE IF contained # {}
                 THEN \E i \in contained :
                        /\ call.result = rows[i].code
                        /\ \A j \in contained :
                             ContainmentScore(target, rows, j) <= ContainmentScore(target, rows, i)
               ELSE call.result = Null
           /\ call.result = Null <=> (exact = {} /\ contained = {})

\* C20 witness: the exact entry stands behind a containment candidate of the
\* same score and its code is the one returned
C20_Witness ==
  /\ call.fn = "resolveCbsaCode" /\ call.done
  /\ call.args = <<TargetFortWorth, <<DallasEntry, FortWorthCityEntry>>>>
  /\ call.result = FortWorthCityEntry.code

\* C20 witness of the null result: usable rows, none of them matching
C20_WitnessNull ==
  /\ call.fn = "resolveCbsaCode" /\ call.done
  /\ UsableRows(call.args[2]) # {}
  /\ call.result = Null

\* C17: the three documented spellings of the Nashville market,
\* "Nashville-Davidson-Murfreesboro, TN", "Nashville Davidson Murfreesboro MSA"
\* and "nashville-davidson-murfreesboro tn", all have one and the same key
C17_SpellingVariantsShareKey ==
  (call.fn = "normalizeMsaKey" /\ call.done /\ call.args[1] \in NashvilleVariants)
    => \A v \in NashvilleVariants : call.result = normalizeMsaKey(v)

\* C18: preferCanonicalName(a, b) is one of its two arguments, the same one for
\* either argument order, chosen by: the non-empty one; else the one without a
\* metro phrase; else the one with a two-letter state suffix; else the shorter;
\* else the one that sorts first
C18_PreferIsCommutative ==
  (call.fn = "choosePreferredMsaName" /\ call.done)
    => LET a == call.args[1]
           b == call.args[2]
           r == call.result
           other == IF r = a THEN b ELSE a
       IN  /\ r \in {a, b}
           /\ r = choosePreferredMsaName(b, a)
           /\ IF a = <<>> \/ b = <<>> THEN other = <<>> \/ r # <<>>
               ELSE IF hasMetroPhrase(a) # hasMetroPhrase(b) THEN ~hasMetroPhrase(r)
               ELSE IF hasStateAbbreviation(a) # hasStateAbbreviation(b) THEN hasStateAbbreviation(r)
               ELSE IF Len(a) # Len(b) THEN Len(r) < Len(other)
               ELSE localeCompare(r, other) <= 0

\* a non-null result of computeGrowth is a whole number
IsWhole(v) == Len(v) = 1

\* the whole part of the magnitude of a non-null result of computeGrowth
WholePart(v) ==
  IF IsWhole(v) THEN Abs(v[1])
  ELSE IF v[3] < 0 THEN 0
  ELSE FromBits(SubSeq(v[2], 1, v[3] + 1))

IsNegative(v) == IF IsWhole(v) THEN v[1] < 0 ELSE v[1]

\* C19: growth(current, past) is null exactly when current is null, past is null
\* or past is zero (growth(100, 0) and growth(null, 100) are null); otherwise it
\* is the number (current - past) / past * 100: growth(110, 100) is 10, a result
\* that is a whole number is the exact value, and any other result has the sign
\* of the exact value and lies within one unit of it
C19_Growth ==
  (call.fn = "computeGrowth" /\ call.done)
    => LET current == call.args[1]
           past == call.args[2]
           r == call.result
       IN  /\ r = Null <=> (current = Null \/ past = Null \/ past = Some(0))
           /\ (current = Some(100) /\ past = Some(0)) => r = Null
           /\ (current = Null /\ past = Some(100)) => r = Null
           /\ (current = Some(110) /\ past = Some(100)) => r = Some(10)
           /\ r # Null =>
                LET exactTimesPast == (current[1] - past[1]) * 100
                IN  /\ IsWhole(r) => r[1] * past[1] = exactTimesPast
                    /\ exactTimesPast # 0 => (IsNegative(r) <=> (exactTimesPast < 0) # (past[1] < 0))
                    /\ WholePart(r) * Abs(past[1]) <= Abs(exactTimesPast)
                    /\ Abs(exactTimesPast) <= (WholePart(r) + 1) * Abs(past[1])

\* C19 witness: growth(110, 100) has been computed, through a quotient that is
\* not a binary fraction, and is 10
C19_Witness ==
  /\ call.fn = "computeGrowth" /\ call.done
  /\ call.args = <<Some(110), Some(100)>>
  /\ call.result = Some(10)

\* C19 witness of rounding: a result that is not a whole number
C19_WitnessInexact ==
  /\ call.fn = "computeGrowth" /\ call.done
  /\ call.result # Null
  /\ ~IsWhole(call.result)

\* C21: the key the resolver computes for a name is the canonical key of that
\* name, so two names are an exact resolver match exactly when their canonical
\* keys are equal
C21_ResolverUsesCanonicalKey ==
  (call.fn = "normalizeName" /\ call.done)
    => /\ call.result = normalizeMsaKey(call.args[1])
       /\ \A other \in MarketSpellings :
            (call.result = normalizeName(other))
              <=> (normalizeMsaKey(call.args[1]) = normalizeMsaKey(other))

\* the years fetchSeries needs: the latest year and the year each period looks back to
C22_NeededYears(latestYear) ==
  {latestYear, latestYear - 1, latestYear - 3, latestYear - 5, latestYear - 10}

\* requests go to exactly the needed years from 2010 on, two per year
C22_RequestsExact ==
  call.result.requests =
    {y \in C22_NeededYears(call.args[1]) : y >= 2010} \X {"acs/acs5", "acs/acs5/profile"}

\* in the returned series, the values of a period whose year is below 2010 are null
C22_SkippedYearsNull ==
  \A period \in {1, 3, 5, 10} :
    (call.args[1] - period < 2010)
      => \A key \in Range(SeriesKeys) :
           (period > 1 \/ key \in DOMAIN GrowthSource)
             => call.result.series[key][period] = Null

\* C22: fetchSeries(name, code, credential, latestYear) requests exactly the
\* distinct years among latestYear and latestYear-{1,3,5,10} that are >= 2010, two
\* field groups per year; a year below 2010 is skipped without raising an error,
\* and every level or growth value that depends on it is null in the series.
C22_FetchYears ==
  (call.fn = "fetchCensusSeries" /\ call.done)
    => /\ C22_RequestsExact
       /\ (call.args[2] = "ok")
            => /\ call.result.error = ""
               /\ C22_SkippedYearsNull

\* C22 as amended: the same for a latest year from 2010 on; with a latest year
\* below 2010 nothing is requested and the call fails for lack of latest data.
C22_FetchYearsAmended ==
  (call.fn = "fetchCensusSeries" /\ call.done)
    => /\ C22_RequestsExact
       /\ (call.args[2] = "ok" /\ call.args[1] >= 2010)
            => /\ call.result.error = ""
               /\ C22_SkippedYearsNull
       /\ (call.args[1] < 2010)
            => /\ call.result.requests = {}
               /\ call.result.error = "No Census data"

\* a call with latest year 2012 returned: 2009, 2007 and 2002 were skipped
C22_Witness ==
  /\ call.fn = "fetchCensusSeries" /\ call.done
  /\ call.args = <<2012, "ok">>
  /\ Cardinality(call.result.requests) = 4
  /\ call.result.series["population"][1] # Null
  /\ call.result.series["population"][3] = Null
  /\ call.result.series["population_growth"][1] # Null

\* the last getMarketIntel for the name ended after an external request of its
\* lazy refresh had failed
C23_LazyRefreshFailed(name) ==
  /\ pc[1] = "done" /\ loc[1].op = "get" /\ loc[1].name = name
  /\ loc[1].extFailed

\* a getMarketIntel for the name has all its external requests answered, the
\* resolver having found a code or not
C23_ExternalSucceeded(name) ==
  /\ loc[1].op = "get" /\ loc[1].name = name
  /\ loc[1].extCalls > 0 /\ ~loc[1].extFailed
  /\ \/ pc[1] = "g_upsertSeries"
     \/ pc[1] = "g_read" /\ loc[1].autoRefreshWarning = "unresolved"

\* a getMarketIntel for the name has its metric values fetched
C23_FetchSucceeded(name) ==
  /\ loc[1].op = "get" /\ loc[1].name = name
  /\ ~loc[1].extFailed
  /\ pc[1] = "g_upsertSeries"

\* after a failed lazy refresh the cache of the market is empty, and a
\* getMarketIntel that ends with the cache empty has attempted the external fetch
C23_RetriesWhileEmpty ==
  \A name \in Names :
    /\ C23_LazyRefreshFailed(name) => ~Cached(name)
    /\ (pc[1] = "done" /\ loc[1].op = "get" /\ loc[1].name = name /\ ~Cached(name))
         => loc[1].extCalls > 0

\* C23: after a lazy refresh fails with an external-service error the market's
\* cache is still empty, so the next getMarketIntel for the market attempts the
\* external fetch again; if the external source succeeds on some later attempt,
\* the market eventually reaches the cache-populated state, with no refresh call.
C23_LazyRetry ==
  /\ []C23_RetriesWhileEmpty
  /\ \A name \in Names :
       [](C23_LazyRefreshFailed(name)
            => [](C23_ExternalSucceeded(name) => <>Cached(name)))

\* C23 as amended: the market reaches the cache-populated state if on some later
\* attempt the resolver finds a code and the metric values are fetched.
C23_LazyRetryResolved ==
  /\ []C23_RetriesWhileEmpty
  /\ \A name \in Names :
       [](C23_LazyRefreshFailed(name)
            => [](C23_FetchSucceeded(name) => <>Cached(name)))

\* a market whose lazy refresh had failed is cached by a later getMarketIntel
C23_Witness ==
  /\ pc[1] = "done" /\ loc[1].op = "get" /\ loc[1].name = NameAB
  /\ loc[1].wrote /\ ~loc[1].cached
  /\ loc[1].msa.cbsa_code # Null
  /\ loc[1].resolveCalls = 0
  /\ Cached(NameAB)

\* C24: under every interleaving of a tracker upload with a concurrent
\* listMarkets(), the listing never deletes an identity the upload created for its
\* deals: the upload succeeds, and every deal it stored with a non-empty market
\* name references an existing MarketIdentity named by the trimmed market name.
C24_UploadKeepsIdentities ==
  \A p \in Procs :
    (pc[p] = "done" /\ loc[p].op = "upload")
      => /\ loc[p].resp.kind = "ok"
         /\ \A d \in deals :
              (trim(d.msa_name) # <<>>)
                => \E r \in msa : r.id = d.msa_id /\ r.name = trim(d.msa_name)

\* the page has just requested getMarketIntel for the name
C25_Requested(name) ==
  pc[1] = "g_selectMsa" /\ loc[1].op = "get" /\ loc[1].name = name

\* a getMarketIntel that finds series rows at its cache check answers from them
\* with no external request
C25_GateServesCache ==
  \A p \in Gets :
    (pc[p] = "done" /\ loc[p].count > 0)
      => /\ loc[p].extCalls = 0
         /\ loc[p].resp.series # <<>>

C25_PurgedUnreferenced(name) ==
  /\ pc[1] = "l_purge"
  /\ \A r \in RowsNamed(name) :
       /\ r.id \in staleMsaIds(loc[1])
       /\ ~\E d \in deals : d.msa_id = r.id

C26_SeriesImplyCode ==
  \A r \in msa : (SeriesOf(metric_series, r.id) # <<>>) => r.cbsa_code # Null

\* a lazy refresh has resolved the code, stored it and written the series
C26_Witness ==
  \E p \in Gets :
    /\ pc[p] = "done" /\ loc[p].wrote /\ loc[p].resolveCalls = 1
    /\ HasIdentity(loc[p].msa.id)
    /\ SeriesOf(metric_series, loc[p].msa.id) # <<>>
    /\ IdentityRow(loc[p].msa.id).cbsa_code = loc[p].cbsaCode

\* the rows are one for each of the 13 fetcher keys and each period of 1, 3, 5 and
\* 10 years, every key a 'series' metric of the seeded catalog
C27_Grid(rows) ==
  /\ Len(rows) = 52
  /\ {<<rows[i].metric_key, rows[i].period_years>> : i \in DOMAIN rows}
       = Range(SeriesKeys) \X {1, 3, 5, 10}
  /\ Cardinality(Range(SeriesKeys)) = 13
  /\ \A i \in DOMAIN rows :
       [key |-> rows[i].metric_key, kind |-> "series"] \in metric

\* C27: every successful refresh writes a complete grid of series rows, one for
\* each of the 13 fetcher metric keys and each period in {1, 3, 5, 10} (52 rows,
\* those of null value included), every key a 'series' metric of the seeded
\* catalog; so no refresh violates the period check or the metric foreign key, and
\* the market counts as cache-populated after it even if every value is null.
C27_CompleteGrid ==
  /\ \A p \in Procs :
       /\ (pc[p] \in {"g_upsertSeries", "r_upsertSeries"})
            => C27_Grid(loc[p].census) /\ SeriesConstraints(loc[p].census)
       /\ (loc[p].storeFailed /\ loc[p].op \in {"get", "refresh"})
            => ~HasIdentity(loc[p].msa.id)
  /\ \A r \in msa :
       (SeriesOf(metric_series, r.id) # <<>>) => C27_Grid(SeriesOf(metric_series, r.id))
  /\ \A p \in Procs :
       (loc[p].wrote /\ HasIdentity(loc[p].msa.id)) => Cached(IdentityRow(loc[p].msa.id).name)

\* a refresh whose fetched values were all null has written its 52 rows, and the
\* market counts as populated
C27_Witness ==
  \E p \in Refreshes :
    /\ pc[p] = "done" /\ loc[p].wrote /\ loc[p].resp.kind = "ok"
    /\ HasIdentity(loc[p].msa.id)
    /\ LET rows == SeriesOf(metric_series, loc[p].msa.id)
       IN  /\ Len(rows) = 52
           /\ \A i \in DOMAIN rows : rows[i].value = Null
    /\ Cached(loc[p].name)

\* a refreshMarket has ended without a code: the identity had none stored and the
\* resolver found none
C28_Unresolved(p) ==
  /\ pc[p] = "done" /\ loc[p].op = "refresh"
  /\ loc[p].resolveCalls = 1 /\ loc[p].cbsaCode = Null

\* the unresolved refreshMarket has answered with an error, made the catalog
\* request only, written no series row and left the code null
C28_ErrorAndNoWrites ==
  \A p \in Procs :
    C28_Unresolved(p)
      => /\ loc[p].resp.kind = "error"
         /\ loc[p].extCalls = 1
         /\ ~loc[p].wrote /\ loc[p].census = <<>>
         /\ ~loc[p].dirty
              => /\ HasIdentity(loc[p].msa.id)
                 /\ IdentityRow(loc[p].msa.id).cbsa_code = Null
                 /\ SeriesOf(metric_series, loc[p].msa.id) = <<>>

\* C28: when refreshMarket(name) cannot resolve a statistical-area code (the
\* identity has no stored code and the resolver returns null), it returns an error
\* result, issues no metric-values request, writes no series rows and leaves the
\* identity's code null; creating the identity row is the only change it may have
\* made to the store.
C28_UnresolvedRefreshWritesNothing ==
  /\ []C28_ErrorAndNoWrites
  /\ [][\A p \in Procs :
          (pc[p] \in {"r_resolve", "r_update", "r_fetch", "r_upsertSeries"}
             /\ pc'[p] # pc[p] /\ C28_Unresolved(p)')
            => UNCHANGED db]_vars

\* a refreshMarket of a name no catalog entry matches has answered 400
C28_Witness ==
  \E p \in Refreshes :
    /\ C28_Unresolved(p)
    /\ loc[p].name = NameQ /\ ~loc[p].extFailed
    /\ loc[p].resp.status = 400
    /\ HasIdentity(loc[p].msa.id)
    /\ IdentityRow(loc[p].msa.id).cbsa_code = Null

\* the labels of the required values a row lacks: an empty address, city or state,
\* no units above 0, no NOI, no cap rate
C29_Missing(f) ==
  (IF f.address = <<>> THEN {"address"} ELSE {})
    \cup (IF f.city = <<>> THEN {"city"} ELSE {})
    \cup (IF f.state = <<>> THEN {"state"} ELSE {})
    \cup (IF f.units <= 0 THEN {"units"} ELSE {})
    \cup (IF f.noi = Null THEN {"NOI"} ELSE {})
    \cup (IF f.capRate = Null THEN {"cap rate"} ELSE {})

\* name, address, city, state and market (the market column or, without it, the
\* MSA name) are all empty
C29_AllEmpty(row) ==
  LET f == parsedFields(row)
  IN  f.name = <<>> /\ f.address = <<>> /\ f.city = <<>> /\ f.state = <<>>
        /\ f.marketRaw = <<>>

\* C29: extractDealsFromRows classifies every deal it produces as MISSING_INFO
\* exactly when at least one of address, city, state, units (<= 0), NOI or cap rate
\* is missing, and as ACTIVE otherwise (never REJECTED), with missingFields listing
\* exactly the missing ones and executionStage UNPROCESSED; a row is skipped
\* exactly when name, address, city, state and market are all empty, so produced
\* deals plus skipped rows equals the number of input rows.
C29_Classification ==
  (call.fn = "extractDealsFromRows" /\ call.done)
    => LET rows == call.args[1]
           kept == SelectSeq(rows, LAMBDA row : ~C29_AllEmpty(row))
           produced == call.result.deals
       IN  /\ Len(produced) + call.result.skipped = Len(rows)
           /\ call.result.skipped = Len(rows) - Len(kept)
           /\ \A i \in DOMAIN produced :
                LET missing == C29_Missing(parsedFields(kept[i]))
                IN  /\ produced[i].evaluationStatus
                         = (IF missing # {} THEN "MISSING_INFO" ELSE "ACTIVE")
                    /\ produced[i].evaluationStatus # "REJECTED"
                    /\ Range(produced[i].missingFields) = missing
                    /\ Len(produced[i].missingFields) = Cardinality(missing)
                    /\ produced[i].executionStage = "UNPROCESSED"

\* a sheet of three rows gave an ACTIVE deal, a skipped row and a MISSING_INFO deal
\* that lacks its city
C29_Witness ==
  /\ call.fn = "extractDealsFromRows" /\ call.done
  /\ Len(call.args[1]) = 3
  /\ call.result.skipped = 1
  /\ Len(call.result.deals) = 2
  /\ call.result.deals[1].evaluationStatus = "ACTIVE"
  /\ call.result.deals[2].evaluationStatus = "MISSING_INFO"
  /\ "city" \in Range(call.result.deals[2].missingFields)

\* the stages the store's list shows for a deal
C30_StagesOf(list, dealId) ==
  {list[i].executionStage : i \in {j \in DOMAIN list : list[j].id = dealId}}

\* C30: a stage given to a deal by updateDealExecutionStage stays the deal's
\* stage in the store's list through every later store operation (the return
\* of refreshDeals included), as long as the deal stays in the list and
\* updateDealExecutionStage is not applied to it again: no other step changes
\* the stage of a deal the list holds before and after it.
C30_StageKept ==
  [][\A dealId \in storeIds :
       (C30_StagesOf(storeDeals', dealId) # {})
         => \/ C30_StagesOf(storeDeals, dealId) \subseteq C30_StagesOf(storeDeals', dealId)
            \/ \E stage \in ExecutionStages : updateDealExecutionStage(dealId, stage)]_vars

====
